---------------------------- MODULE Spec2Model ----------------------------
(***************************************************************************)
(* A model of the snake compiler (eecs483-procedures): the resolver        *)
(* (src/src/frontend.rs), the lowerer to block-argument SSA                *)
(* (src/src/middle_end.rs), the x86-64 emitter (src/src/backend.rs), the   *)
(* two reference interpreters (src/src/interp.rs) and a small x86 machine  *)
(* that executes the emitted instruction list.                             *)
(*                                                                         *)
(* Trees (expressions, block bodies) are records tagged by the field k.    *)
(* Machine integers are WordBits wide, two's complement, wrapping.         *)
(***************************************************************************)
EXTENDS Integers, Sequences, FiniteSets, TLC

VARIABLES
  source,    \* the surface program handed to the compiler (SurfProg)
  input,     \* the integer the program is run on
  phase,     \* position of the pipeline
  resolved,  \* result of Resolver::resolve_prog: bound program or CompileErr
  gens,      \* the identifier generators carried Resolver -> Lowerer
  astOut,    \* result of interp::ast::Machine::run_prog on the bound program
  ssaProg,   \* result of Lowerer::lower_prog
  ssaState,  \* state of interp::ssa::Interp while it runs
  asmProg,   \* result of Emitter::emit_prog: the instruction list
  cpu        \* state of the machine executing the instruction list

vars == <<source, input, phase, resolved, gens, astOut, ssaProg, ssaState, asmProg, cpu>>

(***************************************************************************)
(* Bounds of the model.                                                    *)
(***************************************************************************)
WordBits == 12     \* width of a machine integer (i64 scaled down)
MaxArg == 2        \* inputs range over -MaxArg .. MaxArg and the two extremes
MaxCalls == 6      \* function calls an interpreter run is followed for
MaxSteps == 160    \* steps an SSA interpretation or a machine run is followed for

(***************************************************************************)
(* Sequence helpers.                                                       *)
(***************************************************************************)
Range(s) == {s[i] : i \in DOMAIN s}

RECURSIVE Concat(_)
Concat(ss) == IF ss = <<>> THEN <<>> ELSE Head(ss) \o Concat(Tail(ss))

Reverse(s) == [i \in 1..Len(s) |-> s[Len(s) + 1 - i]]

Put(f, key, v) == [x \in DOMAIN f \cup {key} |-> IF x = key THEN v ELSE f[x]]

EmptyMap == [x \in {} |-> 0]

(***************************************************************************)
(* identifiers.rs                                                          *)
(***************************************************************************)
VarName(idx, hint) == [idx |-> idx, hint |-> hint]

Mangled(idx, hint) == [mangled |-> TRUE, idx |-> idx, hint |-> hint]

Unmangled(hint) == [mangled |-> FALSE, hint |-> hint]

BlockName(idx, hint) == [idx |-> idx, hint |-> hint]

\* impl Display for VarName / FunName / BlockName
DisplayVar(v) == v.hint \o "%" \o ToString(v.idx)

DisplayFun(f) == IF f.mangled THEN f.hint \o "@" \o ToString(f.idx) ELSE f.hint

DisplayBlock(b) == b.hint \o "#" \o ToString(b.idx)

\* IdGen::new for the three generators of a compilation
NewGens == [vars |-> 0, funs |-> 0, blocks |-> 0]

\* IdGen::fresh: the identifier made and the generator afterwards
fresh_var(g, hint) == [id |-> VarName(g.vars, hint), g |-> [g EXCEPT !.vars = @ + 1]]

fresh_fun(g, hint) == [id |-> Mangled(g.funs, hint), g |-> [g EXCEPT !.funs = @ + 1]]

fresh_block(g, hint) == [id |-> BlockName(g.blocks, hint), g |-> [g EXCEPT !.blocks = @ + 1]]

(***************************************************************************)
(* ast.rs: expressions.  A source location is the path of the node.        *)
(***************************************************************************)
Num(n) == [k |-> "Num", n |-> n]

Bool(b) == [k |-> "Bool", b |-> b]

Var(v) == [k |-> "Var", v |-> v, loc |-> <<>>]

Prim(p, args) == [k |-> "Prim", prim |-> p, args |-> args]

Binding(v, e) == [var |-> v, vloc |-> <<>>, expr |-> e]

Let(bindings, body) == [k |-> "Let", bindings |-> bindings, body |-> body]

If(c, t, e) == [k |-> "If", cond |-> c, thn |-> t, els |-> e]

Param(p) == [p |-> p, loc |-> <<>>]

FunDecl(name, params, body) ==
  [name |-> name, params |-> [i \in 1..Len(params) |-> Param(params[i])],
   body |-> body, loc |-> <<>>]

FunDefs(decls, body) == [k |-> "FunDefs", decls |-> decls, body |-> body]

Call(f, args) == [k |-> "Call", fun |-> f, args |-> args, loc |-> <<>>]

ExtDecl(name, params) ==
  [name |-> name, params |-> [i \in 1..Len(params) |-> Param(params[i])], loc |-> <<>>]

\* Prim::arity
arity(p) == IF p \in {"Add1", "Sub1", "Not"} THEN 1 ELSE 2

\* the parser's SrcLoc of every node an error can point at
RECURSIVE Locate(_, _)
Locate(e, path) ==
  CASE e.k = "Var" -> [e EXCEPT !.loc = path]
    [] e.k = "Prim" ->
         [e EXCEPT !.args = [i \in 1..Len(e.args) |-> Locate(e.args[i], path \o <<i>>)]]
    [] e.k = "Let" ->
         [e EXCEPT !.bindings = [i \in 1..Len(e.bindings) |->
                       [var |-> e.bindings[i].var, vloc |-> path \o <<i, 0>>,
                        expr |-> Locate(e.bindings[i].expr, path \o <<i, 1>>)]],
                   !.body = Locate(e.body, path \o <<0>>)]
    [] e.k = "If" ->
         [e EXCEPT !.cond = Locate(e.cond, path \o <<1>>),
                   !.thn = Locate(e.thn, path \o <<2>>),
                   !.els = Locate(e.els, path \o <<3>>)]
    [] e.k = "FunDefs" ->
         [e EXCEPT !.decls = [i \in 1..Len(e.decls) |->
                       [name |-> e.decls[i].name,
                        params |-> [j \in 1..Len(e.decls[i].params) |->
                                      [p |-> e.decls[i].params[j].p,
                                       loc |-> path \o <<i, 0, j>>]],
                        body |-> Locate(e.decls[i].body, path \o <<i, 1>>),
                        loc |-> path \o <<i>>]],
                   !.body = Locate(e.body, path \o <<0>>)]
    [] e.k = "Call" ->
         [e EXCEPT !.loc = path,
                   !.args = [i \in 1..Len(e.args) |-> Locate(e.args[i], path \o <<i>>)]]
    [] OTHER -> e

\* ast.rs Prog, as the parser yields it for `externs.. def main(param): body`
Prog(externs, param, body) ==
  [externs |-> [i \in 1..Len(externs) |->
                  [name |-> externs[i].name,
                   params |-> [j \in 1..Len(externs[i].params) |->
                                 [p |-> externs[i].params[j].p, loc |-> <<1, i, j>>]],
                   loc |-> <<1, i>>]],
   name |-> "main",
   param |-> [p |-> param, loc |-> <<2>>],
   body |-> Locate(body, <<3>>)]

(***************************************************************************)
(* frontend.rs: the resolver.  A result is [ok |-> TRUE, val, g] or        *)
(* [ok |-> FALSE, err], g being the identifier generators afterwards.      *)
(***************************************************************************)
Ok(val, g) == [ok |-> TRUE, val |-> val, g |-> g]

Err(e) == [ok |-> FALSE, err |-> e]

\* an UnboundVariable that carries the location of the whole program
UnboundVariable_unlocated(name, loc) ==
  [kind |-> "UnboundVariable", name |-> name, loc |-> <<>>]

\* a DuplicateFunction reported as a DuplicateParameter
DuplicateFunction_as_parameter(name, loc) ==
  [kind |-> "DuplicateParameter", name |-> name, loc |-> loc]

\* CompileErr
UnboundVariable(name, loc) == [kind |-> "UnboundVariable", name |-> name, loc |-> loc]

DuplicateVariable(name, loc) == [kind |-> "DuplicateVariable", name |-> name, loc |-> loc]

UnboundFunction(name, loc) == [kind |-> "UnboundFunction", name |-> name, loc |-> loc]

DuplicateFunction(name, loc) == [kind |-> "DuplicateFunction", name |-> name, loc |-> loc]

DuplicateParameter(name, loc) == [kind |-> "DuplicateParameter", name |-> name, loc |-> loc]

ArityMismatch(name, expected, found, loc) ==
  [kind |-> "ArityMismatch", name |-> name, expected |-> expected,
   found |-> found, loc |-> loc]

\* frontend Env
EnvFun(name, ar) == [name |-> name, arity |-> ar]

ResolverEnvNew == [vars |-> EmptyMap, labels |-> EmptyMap]

\* an insert_var that keeps the binding a name already has
insert_var_keeping(env, var, var_name) ==
  IF var \in DOMAIN env.vars THEN env ELSE [env EXCEPT !.vars = Put(@, var, var_name)]

insert_var(env, var, var_name) == [env EXCEPT !.vars = Put(@, var, var_name)]

\* an insert_label that records one parameter too many
insert_label_plus_one(env, label, fun_name, ar) ==
  [env EXCEPT !.labels = Put(@, label, EnvFun(fun_name, ar + 1))]

insert_label(env, label, fun_name, ar) ==
  [env EXCEPT !.labels = Put(@, label, EnvFun(fun_name, ar))]

\* a duplicate check that never finds one
FirstDup_none(names) == 0

\* the first element a HashSet::insert refuses: the first index whose name
\* occurred before (0 when there is none)
FirstDup(names) ==
  LET dups == {i \in 1..Len(names) : \E j \in 1..(i - 1) : names[j] = names[i]}
  IN  IF dups = {} THEN 0 ELSE CHOOSE i \in dups : \A j \in dups : i <= j

\* the environment after the parameters were inserted one by one
RECURSIVE insert_params(_, _, _, _)
insert_params(env, params, g, i) ==
  IF i > Len(params) THEN env
  ELSE insert_params(insert_var(env, params[i].p, fresh_var(g, params[i].p).id),
                     params, fresh_var(g, params[i].p).g, i + 1)

\* Resolver::resolve_params: also yields the extended environment
resolve_params(params, env, g) ==
  LET d == FirstDup([i \in 1..Len(params) |-> params[i].p])
  IN  IF d # 0 THEN Err(DuplicateParameter(params[d].p, params[d].loc))
      ELSE [ok |-> TRUE,
            val |-> [i \in 1..Len(params) |->
                       [p |-> VarName(g.vars + i - 1, params[i].p), loc |-> params[i].loc]],
            env |-> insert_params(env, params, g, 1),
            g |-> [g EXCEPT !.vars = @ + Len(params)]]

\* a FunDefs that registers only its first declaration
insert_decls_first_only(env, decls, g, i) ==
  IF decls = <<>> THEN env
  ELSE insert_label(env, decls[1].name, fresh_fun(g, decls[1].name).id, Len(decls[1].params))

\* the loop of FunDefs that registers every declaration under a fresh FunName
RECURSIVE insert_decls(_, _, _, _)
insert_decls(env, decls, g, i) ==
  IF i > Len(decls) THEN env
  ELSE insert_decls(insert_label(env, decls[i].name, fresh_fun(g, decls[i].name).id,
                                 Len(decls[i].params)),
                    decls, fresh_fun(g, decls[i].name).g, i + 1)

RECURSIVE resolve_expr(_, _, _), resolve_exprs(_, _, _), resolve_bindings(_, _, _),
          resolve_fun_decl(_, _, _), resolve_fun_decls(_, _, _)

\* args.into_iter().map(|arg| self.resolve_expr(arg, env.clone())).collect()
resolve_exprs(args, env, g) ==
  IF args = <<>> THEN Ok(<<>>, g)
  ELSE LET r == resolve_expr(Head(args), env, g)
       IN  IF ~r.ok THEN r
           ELSE LET rs == resolve_exprs(Tail(args), env, r.g)
                IN  IF ~rs.ok THEN rs ELSE Ok(<<r.val>> \o rs.val, rs.g)

\* a let whose right-hand sides are all resolved in the environment before the
\* let (outer), the bindings being inserted for the body only
RECURSIVE resolve_bindings_in(_, _, _, _)
resolve_bindings_in(bindings, outer, env, g) ==
  IF bindings = <<>> THEN [ok |-> TRUE, val |-> <<>>, env |-> env, g |-> g]
  ELSE LET b == Head(bindings)
           f == fresh_var(g, b.var)
           r == resolve_expr(b.expr, outer, f.g)
       IN  IF ~r.ok THEN r
           ELSE LET rs == resolve_bindings_in(Tail(bindings), outer,
                                              insert_var(env, b.var, f.id), r.g)
                IN  IF ~rs.ok THEN rs
                    ELSE [ok |-> TRUE,
                          val |-> <<[var |-> f.id, vloc |-> b.vloc, expr |-> r.val]>> \o rs.val,
                          env |-> rs.env, g |-> rs.g]

resolve_bindings_outer(bindings, env, g) == resolve_bindings_in(bindings, env, env, g)

\* the map over the bindings of a let: each binding is named, its right-hand
\* side resolved in the environment so far, and then inserted
resolve_bindings(bindings, env, g) ==
  IF bindings = <<>> THEN [ok |-> TRUE, val |-> <<>>, env |-> env, g |-> g]
  ELSE LET b == Head(bindings)
           f == fresh_var(g, b.var)
           r == resolve_expr(b.expr, env, f.g)
       IN  IF ~r.ok THEN r
           ELSE LET rs == resolve_bindings(Tail(bindings), insert_var(env, b.var, f.id), r.g)
                IN  IF ~rs.ok THEN rs
                    ELSE [ok |-> TRUE,
                          val |-> <<[var |-> f.id, vloc |-> b.vloc, expr |-> r.val]>> \o rs.val,
                          env |-> rs.env, g |-> rs.g]

\* Resolver::resolve_fun_decl
resolve_fun_decl(decl, env, g) ==
  LET name == env.labels[decl.name].name
      ps == resolve_params(decl.params, env, g)
  IN  IF ~ps.ok THEN ps
      ELSE LET body == resolve_expr(decl.body, ps.env, ps.g)
           IN  IF ~body.ok THEN body
               ELSE Ok([name |-> name, params |-> ps.val, body |-> body.val,
                        loc |-> decl.loc], body.g)

resolve_fun_decls(decls, env, g) ==
  IF decls = <<>> THEN Ok(<<>>, g)
  ELSE LET r == resolve_fun_decl(Head(decls), env, g)
       IN  IF ~r.ok THEN r
           ELSE LET rs == resolve_fun_decls(Tail(decls), env, r.g)
                IN  IF ~rs.ok THEN rs ELSE Ok(<<r.val>> \o rs.val, rs.g)

\* Resolver::resolve_expr
resolve_expr(expr, env, g) ==
  CASE expr.k \in {"Num", "Bool"} -> Ok(expr, g)
    [] expr.k = "Var" ->
         IF expr.v \in DOMAIN env.vars
         THEN Ok([expr EXCEPT !.v = env.vars[expr.v]], g)
         ELSE Err(UnboundVariable(expr.v, expr.loc))
    [] expr.k = "Prim" ->
         LET as == resolve_exprs(expr.args, env, g)
         IN  IF ~as.ok THEN as ELSE Ok([expr EXCEPT !.args = as.val], as.g)
    [] expr.k = "Let" ->
         LET d == FirstDup([i \in 1..Len(expr.bindings) |-> expr.bindings[i].var])
         IN  IF d # 0
             THEN Err(DuplicateVariable(expr.bindings[d].var, expr.bindings[d].vloc))
             ELSE LET bs == resolve_bindings(expr.bindings, env, g)
                  IN  IF ~bs.ok THEN bs
                      ELSE LET body == resolve_expr(expr.body, bs.env, bs.g)
                           IN  IF ~body.ok THEN body
                               ELSE Ok([expr EXCEPT !.bindings = bs.val,
                                                    !.body = body.val], body.g)
    [] expr.k = "If" ->
         LET c == resolve_expr(expr.cond, env, g)
         IN  IF ~c.ok THEN c
             ELSE LET t == resolve_expr(expr.thn, env, c.g)
                  IN  IF ~t.ok THEN t
                      ELSE LET e == resolve_expr(expr.els, env, t.g)
                           IN  IF ~e.ok THEN e
                               ELSE Ok([expr EXCEPT !.cond = c.val, !.thn = t.val,
                                                    !.els = e.val], e.g)
    [] expr.k = "FunDefs" ->
         LET d == FirstDup([i \in 1..Len(expr.decls) |-> expr.decls[i].name])
         IN  IF d # 0
             THEN Err(DuplicateFunction(expr.decls[d].name, expr.decls[d].loc))
             ELSE LET env2 == insert_decls(env, expr.decls, g, 1)
                      g2 == [g EXCEPT !.funs = @ + Len(expr.decls)]
                      ds == resolve_fun_decls(expr.decls, env2, g2)
                  IN  IF ~ds.ok THEN ds
                      ELSE LET body == resolve_expr(expr.body, env2, ds.g)
                           IN  IF ~body.ok THEN body
                               ELSE Ok([expr EXCEPT !.decls = ds.val,
                                                    !.body = body.val], body.g)
    [] expr.k = "Call" ->
         IF expr.fun \notin DOMAIN env.labels
         THEN Err(UnboundFunction(expr.fun, expr.loc))
         ELSE LET env_fun == env.labels[expr.fun]
              IN  IF env_fun.arity # Len(expr.args)
                  THEN Err(ArityMismatch(expr.fun, env_fun.arity, Len(expr.args), expr.loc))
                  ELSE LET as == resolve_exprs(expr.args, env, g)
                       IN  IF ~as.ok THEN as
                           ELSE Ok([expr EXCEPT !.fun = env_fun.name, !.args = as.val], as.g)

\* the map over prog.externs in resolve_prog
RECURSIVE resolve_externs(_, _, _)
resolve_externs(externs, env, g) ==
  IF externs = <<>> THEN [ok |-> TRUE, val |-> <<>>, env |-> env, g |-> g]
  ELSE LET decl == Head(externs)
       IN  IF decl.name \in DOMAIN env.labels
           THEN Err(DuplicateFunction(decl.name, decl.loc))
           ELSE LET ps == resolve_params(decl.params, env, g)
                IN  IF ~ps.ok THEN ps
                    ELSE LET name == Unmangled(decl.name)
                             rs == resolve_externs(Tail(externs),
                                     insert_label(env, decl.name, name, Len(ps.val)), ps.g)
                         IN  IF ~rs.ok THEN rs
                             ELSE [ok |-> TRUE,
                                   val |-> <<[name |-> name, params |-> ps.val,
                                              loc |-> decl.loc]>> \o rs.val,
                                   env |-> rs.env, g |-> rs.g]

\* Resolver::resolve_prog
resolve_prog(prog, g) ==
  LET name == Unmangled("entry")
      env0 == insert_label(ResolverEnvNew, prog.name, name, 1)
      exts == resolve_externs(prog.externs, env0, g)
  IN  IF ~exts.ok THEN exts
      ELSE LET param == fresh_var(exts.g, prog.param.p)
               env1 == insert_var(exts.env, prog.param.p, param.id)
               body == resolve_expr(prog.body, env1, param.g)
           IN  IF ~body.ok THEN body
               ELSE Ok([externs |-> exts.val, name |-> name,
                        param |-> [p |-> param.id, loc |-> prog.param.loc],
                        body |-> body.val], body.g)

\* txt.rs FileInfo::report_error: the pieces of the message, in order
report_error(err) ==
  CASE err.kind = "UnboundVariable" -> <<"variable \"", err.name, "\" unbound: ">>
    [] err.kind = "DuplicateVariable" ->
         <<"variable \"", err.name, "\" defined twice in let-expression: ">>
    [] err.kind = "UnboundFunction" -> <<"function \"", err.name, "\" undefined: ">>
    [] err.kind = "DuplicateFunction" ->
         <<"multiple defined functions named \"", err.name, "\": ">>
    [] err.kind = "DuplicateParameter" ->
         <<"multiple parameters named \"", err.name, "\": ">>
    [] err.kind = "ArityMismatch" ->
         <<"function \"", err.name, "\" of arity ", ToString(err.expected),
           " called with ", ToString(err.found), " arguments: ">>

(***************************************************************************)
(* Machine integers: i64 scaled down to WordBits bits.                     *)
(***************************************************************************)
RECURSIVE Pow2(_)
Pow2(n) == IF n = 0 THEN 1 ELSE 2 * Pow2(n - 1)

MinInt == 0 - Pow2(WordBits - 1)

MaxInt == Pow2(WordBits - 1) - 1

\* two's-complement wraparound of a result
Wrap(n) == ((n + Pow2(WordBits - 1)) % Pow2(WordBits)) - Pow2(WordBits - 1)

(***************************************************************************)
(* interp.rs, mod ast: the tree-walking interpreter, generic in the names, *)
(* followed for at most `fuel` calls.  A result is                         *)
(* [t |-> "ok", v, fuel], [t |-> "err", e] or [t |-> "timeout"].           *)
(***************************************************************************)
Done(v, fuel) == [t |-> "ok", v |-> v, fuel |-> fuel]

Fail(e) == [t |-> "err", e |-> e]

Timeout == [t |-> "timeout"]

\* the closures of Prim in run_kont
prim_f(prim, a) ==
  CASE prim = "Add1" -> Wrap(a[1] + 1)
    [] prim = "Sub1" -> Wrap(a[1] - 1)
    [] prim = "Not" -> IF a[1] = 0 THEN 1 ELSE 0
    [] prim = "Add" -> Wrap(a[1] + a[2])
    [] prim = "Sub" -> Wrap(a[1] - a[2])
    [] prim = "Mul" -> Wrap(a[1] * a[2])
    [] prim = "And" -> IF a[1] # 0 /\ a[2] # 0 THEN 1 ELSE 0
    [] prim = "Or" -> IF a[1] # 0 \/ a[2] # 0 THEN 1 ELSE 0
    [] prim = "Lt" -> IF a[1] < a[2] THEN 1 ELSE 0
    [] prim = "Le" -> IF a[1] <= a[2] THEN 1 ELSE 0
    [] prim = "Gt" -> IF a[1] > a[2] THEN 1 ELSE 0
    [] prim = "Ge" -> IF a[1] >= a[2] THEN 1 ELSE 0
    [] prim = "Eq" -> IF a[1] = a[2] THEN 1 ELSE 0
    [] prim = "Neq" -> IF a[1] # a[2] THEN 1 ELSE 0

\* HashMap::from_iter over the declarations of a block: name -> RcFunDef
RcFunDefs(decls) ==
  [n \in {decls[i].name : i \in 1..Len(decls)} |->
     LET i == CHOOSE i \in 1..Len(decls) :
                /\ decls[i].name = n
                /\ \A j \in (i + 1)..Len(decls) : decls[j].name # n
     IN  [params |-> [j \in 1..Len(decls[i].params) |-> decls[i].params[j].p],
          body |-> decls[i].body]]

Closure(env, decls, name) == [env |-> env, decls |-> decls, name |-> name]

\* env extended by one closure per declaration, each closing over clo_env
bind_decls(env, clo_env, decls) ==
  [env EXCEPT !.funs = [n \in DOMAIN @ \cup DOMAIN decls |->
                          IF n \in DOMAIN decls THEN Closure(clo_env, decls, n) ELSE @[n]]]

\* env extended by the parameters, in order
RECURSIVE bind_params(_, _, _)
bind_params(env, params, args) ==
  IF params = <<>> THEN env
  ELSE bind_params([env EXCEPT !.vars = Put(@, Head(params), Head(args))],
                   Tail(params), Tail(args))

RECURSIVE run_expr(_, _, _), run_args(_, _, _), run_let(_, _, _, _), run_call(_, _, _, _)

\* Stack::Operation: the arguments left to right, in the same environment
run_args(args, env, fuel) ==
  IF args = <<>> THEN Done(<<>>, fuel)
  ELSE LET r == run_expr(Head(args), env, fuel)
       IN  IF r.t # "ok" THEN r
           ELSE LET rs == run_args(Tail(args), env, r.fuel)
                IN  IF rs.t # "ok" THEN rs ELSE Done(<<r.v>> \o rs.v, rs.fuel)

\* Stack::Let: each binding is evaluated in the environment of those before it
run_let(bindings, body, env, fuel) ==
  IF bindings = <<>> THEN run_expr(body, env, fuel)
  ELSE LET r == run_expr(Head(bindings).expr, env, fuel)
       IN  IF r.t # "ok" THEN r
           ELSE run_let(Tail(bindings), body,
                        [env EXCEPT !.vars = Put(@, Head(bindings).var, r.v)], r.fuel)

\* Machine::run_call
run_call(fun, args, env, fuel) ==
  IF fun \notin DOMAIN env.funs THEN Fail([kind |-> "UnboundFun", name |-> fun])
  ELSE LET clo == env.funs[fun]
           def == clo.decls[clo.name]
       IN  IF Len(args) # Len(def.params)
           THEN Fail([kind |-> "CallWrongArity", name |-> clo.name,
                      expected |-> Len(def.params), got |-> Len(args)])
           ELSE IF fuel = 0 THEN Timeout
           ELSE run_expr(def.body,
                         bind_params(bind_decls(clo.env, clo.env, clo.decls),
                                     def.params, args),
                         fuel - 1)

\* Machine::run_expr (dive_expr and run_kont)
run_expr(expr, env, fuel) ==
  CASE expr.k = "Num" -> Done(expr.n, fuel)
    [] expr.k = "Bool" -> Done(IF expr.b THEN 1 ELSE 0, fuel)
    [] expr.k = "Var" ->
         IF expr.v \in DOMAIN env.vars THEN Done(env.vars[expr.v], fuel)
         ELSE Fail([kind |-> "UnboundVar", name |-> expr.v])
    [] expr.k = "Prim" ->
         LET as == run_args(expr.args, env, fuel)
         IN  IF as.t # "ok" THEN as ELSE Done(prim_f(expr.prim, as.v), as.fuel)
    [] expr.k = "Let" -> run_let(expr.bindings, expr.body, env, fuel)
    [] expr.k = "If" ->
         LET c == run_expr(expr.cond, env, fuel)
         IN  IF c.t # "ok" THEN c
             ELSE IF c.v # 0 THEN run_expr(expr.thn, env, c.fuel)
             ELSE run_expr(expr.els, env, c.fuel)
    [] expr.k = "FunDefs" ->
         run_expr(expr.body, bind_decls(env, env, RcFunDefs(expr.decls)), fuel)
    [] expr.k = "Call" ->
         LET as == run_args(expr.args, env, fuel)
         IN  IF as.t # "ok" THEN as ELSE run_call(expr.fun, as.v, env, as.fuel)

\* Machine::run_prog
run_prog(prog, a, fuel) ==
  IF prog.externs # <<>> THEN [t |-> "panic", why |-> "extern functions are not supported"]
  ELSE LET decls == (prog.name :> [params |-> <<prog.param.p>>, body |-> prog.body])
           clo == Closure([vars |-> EmptyMap, funs |-> EmptyMap], decls, prog.name)
           env == [vars |-> (prog.param.p :> a), funs |-> (prog.name :> clo)]
       IN  run_expr(prog.body, env, fuel)

(***************************************************************************)
(* ssa.rs: the intermediate representation.                                *)
(***************************************************************************)
Const(n) == [k |-> "Const", n |-> n]

ImmVar(v) == [k |-> "Var", v |-> v]

OpImmediate(imm) == [k |-> "Immediate", imm |-> imm]

OpPrim1(op, imm) == [k |-> "Prim1", op |-> op, imm |-> imm]

OpPrim2(op, imm1, imm2) == [k |-> "Prim2", op |-> op, imm1 |-> imm1, imm2 |-> imm2]

OpCall(fun, args) == [k |-> "Call", fun |-> fun, args |-> args]

Branch(target, args) == [target |-> target, args |-> args]

Return(imm) == [k |-> "Return", imm |-> imm]

TBranch(br) == [k |-> "Branch", br |-> br]

ConditionalBranch(cond, thn, els) ==
  [k |-> "ConditionalBranch", cond |-> cond, thn |-> thn, els |-> els]

Terminator(t) == [k |-> "Terminator", t |-> t]

Operation(dest, op, next) == [k |-> "Operation", dest |-> dest, op |-> op, next |-> next]

SubBlocks(blocks, next) == [k |-> "SubBlocks", blocks |-> blocks, next |-> next]

\* a basic block that keeps no parameter
BasicBlock_unparameterised(label, params, body) ==
  [label |-> label, params |-> <<>>, body |-> body]

BasicBlock(label, params, body) == [label |-> label, params |-> params, body |-> body]

FunBlock(name, params, body) == [name |-> name, params |-> params, body |-> body]

Extern(name, params) == [name |-> name, params |-> params]

(***************************************************************************)
(* middle_end.rs: the lowerer.  The mutable pieces a call of               *)
(* lower_expr_kont works on are threaded: env (the lowering Env) and       *)
(* st = [g, funs, blocks, panic, lifted] (the generators, the two output   *)
(* vectors, whether the lowerer panicked, and a history of which FunBlock  *)
(* was lifted from which declaration).                                     *)
(***************************************************************************)
KReturn == [k |-> "Return"]

KBlock(dest, next) == [k |-> "Block", dest |-> dest, next |-> next]

\* Continuation::invoke
invoke(k, imm) ==
  IF k.k = "Return" THEN Terminator(Return(imm))
  ELSE Operation(k.dest, OpImmediate(imm), k.next)

\* FunType
FunTypeExtern == [k |-> "Extern"]

FunTypeLocal(captured, block_name) ==
  [k |-> "Local", captured |-> captured, block_name |-> block_name]

\* middle_end Env
LowerEnvNew == [funs |-> EmptyMap, locals |-> <<>>]

\* a lowering environment that forgets the externs
add_extern_forgotten(env, fun_name) == env

add_extern(env, fun_name) == [env EXCEPT !.funs = Put(@, fun_name, FunTypeExtern)]

add_local_fun(env, fun_name, block_name) ==
  [env EXCEPT !.funs = Put(@, fun_name, FunTypeLocal(env.locals, block_name))]

push_local(env, var) == [env EXCEPT !.locals = Append(@, var)]

RECURSIVE push_locals(_, _)
push_locals(env, vs) ==
  IF vs = <<>> THEN env ELSE push_locals(push_local(env, Head(vs)), Tail(vs))

\* impl Display for Prim
DisplayPrim(prim) ==
  CASE prim = "Add1" -> "add1" [] prim = "Sub1" -> "sub1" [] prim = "Not" -> "!"
    [] prim = "Add" -> "+" [] prim = "Sub" -> "-" [] prim = "Mul" -> "*"
    [] prim = "And" -> "&&" [] prim = "Or" -> "||" [] prim = "Lt" -> "<"
    [] prim = "Le" -> "<=" [] prim = "Gt" -> ">" [] prim = "Ge" -> ">="
    [] prim = "Eq" -> "==" [] prim = "Neq" -> "!="

\* n fresh VarNames hinted "<stem>_<i>", i from 0
arg_vars(g, stem, n) == [i \in 1..n |-> VarName(g.vars + i - 1, stem \o "_" \o ToString(i - 1))]

\* the Prim2 a binary arithmetic or comparison Prim maps to
prim2_of(prim) ==
  CASE prim = "Add" -> "Add" [] prim = "Sub" -> "Sub" [] prim = "Mul" -> "Mul"
    [] prim = "Lt" -> "Lt" [] prim = "Le" -> "Le" [] prim = "Gt" -> "Gt"
    [] prim = "Ge" -> "Ge" [] prim = "Eq" -> "Eq" [] prim = "Neq" -> "Neq"

\* a final operation that applies the bitwise operation to the operands as
\* they are, without IntToBool
prim_block_bitwise(prim, args_imm, dest, next, g) ==
  CASE prim = "Add1" ->
         [body |-> Operation(dest, OpPrim2("Add", args_imm[1], Const(1)), next), g |-> g]
    [] prim = "Sub1" ->
         [body |-> Operation(dest, OpPrim2("Sub", args_imm[1], Const(1)), next), g |-> g]
    [] prim = "Not" ->
         [body |-> Operation(dest, OpPrim2("BitXor", args_imm[1], Const(1)), next), g |-> g]
    [] prim \in {"And", "Or"} ->
         [body |-> Operation(dest, OpPrim2(IF prim = "And" THEN "BitAnd" ELSE "BitOr",
                                           args_imm[1], args_imm[2]), next),
          g |-> g]
    [] OTHER ->
         [body |-> Operation(dest, OpPrim2(prim2_of(prim), args_imm[1], args_imm[2]), next),
          g |-> g]

\* the BlockBody of the final operation of a Prim and the generators after it
prim_block(prim, args_imm, dest, next, g) ==
  CASE prim = "Add1" ->
         [body |-> Operation(dest, OpPrim2("Add", args_imm[1], Const(1)), next), g |-> g]
    [] prim = "Sub1" ->
         [body |-> Operation(dest, OpPrim2("Sub", args_imm[1], Const(1)), next), g |-> g]
    [] prim = "Not" ->
         LET tmp == fresh_var(g, "itob_res")
         IN  [body |-> Operation(tmp.id, OpPrim1("IntToBool", args_imm[1]),
                         Operation(dest, OpPrim2("BitXor", ImmVar(tmp.id), Const(1)), next)),
              g |-> tmp.g]
    [] prim \in {"And", "Or"} ->
         LET t1 == fresh_var(g, "itob_res")
             t2 == fresh_var(t1.g, "itob_res")
         IN  [body |-> Operation(t1.id, OpPrim1("IntToBool", args_imm[1]),
                         Operation(t2.id, OpPrim1("IntToBool", args_imm[2]),
                           Operation(dest,
                             OpPrim2(IF prim = "And" THEN "BitAnd" ELSE "BitOr",
                                     ImmVar(t1.id), ImmVar(t2.id)),
                             next))),
              g |-> t2.g]
    [] OTHER ->
         [body |-> Operation(dest, OpPrim2(prim2_of(prim), args_imm[1], args_imm[2]), next),
          g |-> g]

\* the name the lifted FunBlock of a declaration gets
lifted_name(g, decl) == fresh_fun(g, decl.name.hint)

\* a call to a local function that passes the captured variables in tail
\* position only
local_call_uncaptured(fun, args, k, block_name) ==
  IF k.k = "Return" THEN Terminator(TBranch(Branch(block_name, args)))
  ELSE Operation(k.dest, OpCall(fun, SubSeq(args, 1, Len(args) - 1)), k.next)

\* a call to a local function whose tail branch leaves out the last argument
local_call_tail_short(fun, args, k, block_name) ==
  IF k.k = "Return"
  THEN Terminator(TBranch(Branch(block_name, SubSeq(args, 1, Len(args) - 1))))
  ELSE Operation(k.dest, OpCall(fun, args), k.next)

\* a call to a local function that is a Call operation in tail position too
local_call_never_branch(fun, args, k, block_name) ==
  IF k.k = "Return"
  THEN Operation(VarName(0, "tail_res"), OpCall(fun, args),
                 Terminator(Return(ImmVar(VarName(0, "tail_res")))))
  ELSE Operation(k.dest, OpCall(fun, args), k.next)

\* the BlockBody of a call to a local function
local_call(fun, args, k, block_name) ==
  IF k.k = "Return" THEN Terminator(TBranch(Branch(block_name, args)))
  ELSE Operation(k.dest, OpCall(fun, args), k.next)

RECURSIVE lower_expr_kont(_, _, _, _), lower_args(_, _, _, _, _),
          lower_bindings(_, _, _, _), lower_decls(_, _, _)

\* the arguments folded from the first to the last: the first argument is
\* lowered first, each around the block built so far
RECURSIVE lower_args_forward(_, _, _, _, _)
lower_args_forward(args, args_var, block, env, st) ==
  IF args = <<>> THEN [body |-> block, env |-> env, st |-> st]
  ELSE LET r == lower_expr_kont(Head(args), KBlock(Head(args_var), block), env, st)
       IN  lower_args_forward(Tail(args), Tail(args_var), r.body, r.env, r.st)

\* args.into_iter().zip(args_var).rev().fold(block, ..): the last argument is
\* lowered first, each around the block built so far
lower_args(args, args_var, block, env, st) ==
  IF args = <<>> THEN [body |-> block, env |-> env, st |-> st]
  ELSE LET n == Len(args)
           r == lower_expr_kont(args[n], KBlock(args_var[n], block), env, st)
       IN  lower_args(SubSeq(args, 1, n - 1), SubSeq(args_var, 1, n - 1), r.body, r.env, r.st)

\* bindings.into_iter().rev().fold(block, ..), each in a clone of binding_env
lower_bindings(bindings, block, benv, st) ==
  IF bindings = <<>> THEN [body |-> block, st |-> st]
  ELSE LET n == Len(bindings)
           r == lower_expr_kont(bindings[n].expr, KBlock(bindings[n].var, block), benv, st)
       IN  lower_bindings(SubSeq(bindings, 1, n - 1), r.body, benv, r.st)

\* the second loop of FunDefs: the tail block and the FunBlock of each declaration
lower_decls(decls, env, st) ==
  IF decls = <<>> THEN st
  ELSE LET decl == Head(decls)
           params == [i \in 1..Len(decl.params) |-> decl.params[i].p]
           captured == env.funs[decl.name].captured
           basic_block_params == params \o captured
           label == env.funs[decl.name].block_name
           r == lower_expr_kont(decl.body, KReturn, push_locals(env, basic_block_params), st)
           g1 == r.st.g
           renamed_params ==
             [i \in 1..Len(params) |-> VarName(g1.vars + i - 1, params[i].hint)] \o captured
           g2 == [g1 EXCEPT !.vars = @ + Len(params)]
           name == lifted_name(g2, decl)
           fun_block == FunBlock(name.id, renamed_params,
                                 Branch(label, [i \in 1..Len(renamed_params) |->
                                                  ImmVar(renamed_params[i])]))
       IN  lower_decls(Tail(decls), env,
                       [r.st EXCEPT !.g = name.g,
                                    !.blocks = Append(@, BasicBlock(label, basic_block_params,
                                                                    r.body)),
                                    !.funs = Append(@, fun_block),
                                    !.lifted = Append(@, [decl |-> decl.name,
                                                          fun |-> name.id])])

\* the first loop of FunDefs: every declaration is registered under a fresh label
RECURSIVE register_decls(_, _, _)
register_decls(decls, env, g) ==
  IF decls = <<>> THEN [env |-> env, g |-> g]
  ELSE LET b == fresh_block(g, Head(decls).name.hint \o "_tail")
       IN  register_decls(Tail(decls), add_local_fun(env, Head(decls).name, b.id), b.g)

\* Lowerer::lower_expr_kont
lower_expr_kont(expr, k, env, st) ==
  CASE expr.k = "Num" -> [body |-> invoke(k, Const(expr.n)), env |-> env, st |-> st]
    [] expr.k = "Bool" ->
         [body |-> invoke(k, Const(IF expr.b THEN 1 ELSE 0)), env |-> env, st |-> st]
    [] expr.k = "Var" -> [body |-> invoke(k, ImmVar(expr.v)), env |-> env, st |-> st]
    [] expr.k = "Prim" ->
         LET n == Len(expr.args)
             args_var == arg_vars(st.g, DisplayPrim(expr.prim), n)
             args_imm == [i \in 1..n |-> ImmVar(args_var[i])]
             g1 == [st.g EXCEPT !.vars = @ + n]
             res == fresh_var(g1, DisplayPrim(expr.prim) \o "_res")
             dest == IF k.k = "Block" THEN k.dest ELSE res.id
             next == IF k.k = "Block" THEN k.next ELSE invoke(k, ImmVar(res.id))
             g2 == IF k.k = "Block" THEN g1 ELSE res.g
             block == prim_block(expr.prim, args_imm, dest, next, g2)
         IN  lower_args(expr.args, args_var, block.body, env, [st EXCEPT !.g = block.g])
    [] expr.k = "Let" ->
         LET env1 == push_locals(env, [i \in 1..Len(expr.bindings) |-> expr.bindings[i].var])
             b == lower_expr_kont(expr.body, k, env1, st)
             r == lower_bindings(expr.bindings, b.body, b.env, b.st)
         IN  [body |-> r.body, env |-> b.env, st |-> r.st]
    [] expr.k = "If" ->
         LET cond_var == fresh_var(st.g, "cond")
             g1 == cond_var.g
             thn_label == BlockName(g1.blocks, "thn")
             els_label == BlockName(g1.blocks + 1, "els")
             g2 == [g1 EXCEPT !.blocks = @ + 2]
             c == lower_expr_kont(expr.cond,
                    KBlock(cond_var.id,
                           Terminator(ConditionalBranch(ImmVar(cond_var.id),
                                                        thn_label, els_label))),
                    env, [st EXCEPT !.g = g2])
         IN  IF k.k = "Return"
             THEN LET t == lower_expr_kont(expr.thn, KReturn, c.env, c.st)
                      e == lower_expr_kont(expr.els, KReturn, t.env, t.st)
                  IN  [body |-> SubBlocks(<<BasicBlock(thn_label, <<>>, t.body),
                                            BasicBlock(els_label, <<>>, e.body)>>, c.body),
                       env |-> e.env, st |-> e.st]
             ELSE LET thn_var == fresh_var(c.st.g, "thn_res")
                      els_var == fresh_var(thn_var.g, "els_res")
                      join_label == fresh_block(els_var.g, "jn")
                      t == lower_expr_kont(expr.thn,
                             KBlock(thn_var.id,
                                    Terminator(TBranch(Branch(join_label.id,
                                                              <<ImmVar(thn_var.id)>>)))),
                             c.env, [c.st EXCEPT !.g = join_label.g])
                      e == lower_expr_kont(expr.els,
                             KBlock(els_var.id,
                                    Terminator(TBranch(Branch(join_label.id,
                                                              <<ImmVar(els_var.id)>>)))),
                             t.env, t.st)
                  IN  [body |-> SubBlocks(<<BasicBlock(thn_label, <<>>, t.body),
                                            BasicBlock(els_label, <<>>, e.body),
                                            BasicBlock(join_label.id, <<k.dest>>, k.next)>>,
                                          c.body),
                       env |-> e.env, st |-> e.st]
    [] expr.k = "FunDefs" ->
         LET reg == register_decls(expr.decls, env, st.g)
             st1 == lower_decls(expr.decls, reg.env, [st EXCEPT !.g = reg.g])
         IN  lower_expr_kont(expr.body, k, reg.env, st1)
    [] expr.k = "Call" ->
         LET n == Len(expr.args)
             args_var == arg_vars(st.g, expr.fun.hint, n)
             args_imm == [i \in 1..n |-> ImmVar(args_var[i])]
             g1 == [st.g EXCEPT !.vars = @ + n]
         IN  IF expr.fun \notin DOMAIN env.funs
             THEN [body |-> Terminator(Return(Const(0))), env |-> env,
                   st |-> [st EXCEPT !.panic = TRUE]]
             ELSE LET ft == env.funs[expr.fun]
                      res == fresh_var(g1, expr.fun.hint \o "_res")
                      block ==
                        IF ft.k = "Extern"
                        THEN Operation(res.id, OpCall(expr.fun, args_imm),
                                       invoke(k, ImmVar(res.id)))
                        ELSE local_call(expr.fun,
                                        args_imm \o [i \in 1..Len(ft.captured) |->
                                                       ImmVar(ft.captured[i])],
                                        k, ft.block_name)
                      g2 == IF ft.k = "Extern" THEN res.g ELSE g1
                  IN  lower_args(expr.args, args_var, block, env, [st EXCEPT !.g = g2])

\* the externs of lower_prog: each is registered and copied
RECURSIVE add_externs(_, _)
add_externs(env, externs) ==
  IF externs = <<>> THEN env
  ELSE add_externs(add_extern(env, Head(externs).name), Tail(externs))

\* Lowerer::lower_prog, the Lowerer being made from the Resolver's generators
lower_prog(prog, g) ==
  LET env0 == add_externs(LowerEnvNew, prog.externs)
      externs == [i \in 1..Len(prog.externs) |->
                    Extern(prog.externs[i].name,
                           [j \in 1..Len(prog.externs[i].params) |->
                              prog.externs[i].params[j].p])]
      main_block_label == fresh_block(g, "main_tail")
      env1 == push_local(add_local_fun(env0, prog.name, main_block_label.id), prog.param.p)
      main_fun_block_arg == fresh_var(main_block_label.g, "x")
      main_fun_block == FunBlock(prog.name, <<main_fun_block_arg.id>>,
                                 Branch(main_block_label.id,
                                        <<ImmVar(main_fun_block_arg.id)>>))
      r == lower_expr_kont(prog.body, KReturn, env1,
                           [g |-> main_fun_block_arg.g, funs |-> <<main_fun_block>>,
                            blocks |-> <<>>, panic |-> FALSE, lifted |-> <<>>])
  IN  [panic |-> r.st.panic, lifted |-> r.st.lifted,
       prog |-> [externs |-> externs, funs |-> r.st.funs,
                 blocks |-> Append(r.st.blocks,
                                   BasicBlock(main_block_label.id, <<prog.param.p>>, r.body))],
       g |-> r.st.g]

(***************************************************************************)
(* Bitwise operations on machine integers (two's complement, WordBits).    *)
(***************************************************************************)
RECURSIVE Bitwise(_, _, _, _)
Bitwise(op, a, b, w) ==
  IF w = 0 THEN 0
  ELSE LET x == a % 2
           y == b % 2
           bit == CASE op = "and" -> x * y
                    [] op = "or" -> IF x + y > 0 THEN 1 ELSE 0
                    [] op = "xor" -> (x + y) % 2
       IN  bit + 2 * Bitwise(op, a \div 2, b \div 2, w - 1)

BitOp(op, n, m) == Wrap(Bitwise(op, n % Pow2(WordBits), m % Pow2(WordBits), WordBits))

(***************************************************************************)
(* interp.rs, mod ssa: the SSA interpreter, one action per arm of the      *)
(* trampoline.  The interpreter is the record                              *)
(*   [status, state, stack, kont, blocks, out, steps]                      *)
(* with stack = [cur, rest] (StackEnv), a Frame a function                 *)
(* VarName -> [pos, val], kont a sequence of [dest, next] and blocks a     *)
(* function BlockName -> AnchorBlock.                                      *)
(***************************************************************************)
FrameNew == [v \in {} |-> [pos |-> 0, val |-> 0]]

\* Frame::insert
frame_insert(frame, var, val) ==
  Put(frame, var, [pos |-> Cardinality(DOMAIN frame), val |-> val])

\* Frame::chop
chop(frame, anchor) ==
  [v \in {u \in DOMAIN frame : frame[u].pos < anchor} |-> frame[v]]

\* Interp::alloc
alloc(s, var, val) == [s EXCEPT !.stack.cur = frame_insert(@, var, val)]

\* for (param, arg) in params.iter().zip(args) { self.alloc(param, arg) }
RECURSIVE alloc_all(_, _, _)
alloc_all(s, params, args) ==
  IF params = <<>> \/ args = <<>> THEN s
  ELSE alloc_all(alloc(s, Head(params), Head(args)), Tail(params), Tail(args))

\* StackEnv::enter
enter(s) == [s EXCEPT !.stack = [cur |-> FrameNew, rest |-> Append(s.stack.rest, s.stack.cur)]]

\* StackEnv::exit
exit(s) ==
  [s EXCEPT !.stack = [cur |-> s.stack.rest[Len(s.stack.rest)],
                       rest |-> SubSeq(s.stack.rest, 1, Len(s.stack.rest) - 1)]]

AnchorBlock(anchor, params, body) == [anchor |-> anchor, params |-> params, body |-> body]

\* self.blocks.extend(..): later entries replace earlier ones of the same label
RECURSIVE extend_blocks(_, _, _)
extend_blocks(m, blocks, anchor) ==
  IF blocks = <<>> THEN m
  ELSE extend_blocks(Put(m, Head(blocks).label,
                         AnchorBlock(anchor, Head(blocks).params, Head(blocks).body)),
                     Tail(blocks), anchor)

\* self.funs.extend(..), as the FunBlock a name is mapped to (the last of that name)
RECURSIVE extend_funs(_, _)
extend_funs(m, funs) ==
  IF funs = <<>> THEN m ELSE extend_funs(Put(m, Head(funs).name, Head(funs)), Tail(funs))

ssa_err(s, e) == [s EXCEPT !.status = "err", !.out = e]

ssa_panic(s, why) == [s EXCEPT !.status = "panic", !.out = why]

goto(s, st) == [s EXCEPT !.state = st]

StReturn(val) == [k |-> "Return", val |-> val]

StOperation(op, dest, next) == [k |-> "Operation", op |-> op, dest |-> dest, next |-> next]

StOpReturn(val) == [k |-> "OpReturn", val |-> val]

StCall(fun, args) == [k |-> "Call", fun |-> fun, args |-> args]

StBranch(branch) == [k |-> "Branch", branch |-> branch]

StBlockBody(body) == [k |-> "BlockBody", body |-> body]

StTerminator(t) == [k |-> "Terminator", t |-> t]

\* Interp::run_immediate
ssa_run_immediate(s, imm) ==
  IF imm.k = "Const" THEN [ok |-> TRUE, val |-> imm.n]
  ELSE IF imm.v \in DOMAIN s.stack.cur
       THEN [ok |-> TRUE, val |-> s.stack.cur[imm.v].val]
       ELSE [ok |-> FALSE, err |-> [t |-> "UnboundVar", v |-> imm.v]]

\* args.iter().map(run_immediate).collect::<Result<Vec<_>, _>>(): the first error
RECURSIVE ssa_run_immediates(_, _)
ssa_run_immediates(s, imms) ==
  IF imms = <<>> THEN [ok |-> TRUE, vals |-> <<>>]
  ELSE LET r == ssa_run_immediate(s, Head(imms))
       IN  IF ~r.ok THEN [ok |-> FALSE, err |-> r.err]
           ELSE LET rs == ssa_run_immediates(s, Tail(imms))
                IN  IF ~rs.ok THEN rs ELSE [ok |-> TRUE, vals |-> <<r.val>> \o rs.vals]

\* Interp::run_call; indexing self.funs with an absent name panics
ssa_run_call(s, funs, fun, args) ==
  LET m == extend_funs(EmptyMap, funs)
  IN  IF fun \notin DOMAIN m THEN ssa_panic(s, "no such FunBlock")
      ELSE goto(alloc_all(s, m[fun].params, args), StBranch(m[fun].body))

\* Interp::run_branch
ssa_run_branch(s, branch) ==
  LET args == ssa_run_immediates(s, branch.args)
  IN  IF ~args.ok THEN ssa_err(s, args.err)
      ELSE IF branch.target \notin DOMAIN s.blocks THEN ssa_panic(s, "no such block")
      ELSE LET ab == s.blocks[branch.target]
               chopped == [s EXCEPT !.stack.cur = chop(@, ab.anchor)]
           IN  goto(alloc_all(chopped, ab.params, args.vals), StBlockBody(ab.body))

\* Interp::run_block_body
ssa_run_block_body(s, block) ==
  CASE block.k = "Terminator" -> goto(s, StTerminator(block.t))
    [] block.k = "Operation" -> goto(s, StOperation(block.op, block.dest, block.next))
    [] block.k = "SubBlocks" ->
         goto([s EXCEPT !.blocks = extend_blocks(@, block.blocks,
                                                 Cardinality(DOMAIN s.stack.cur))],
              StBlockBody(block.next))

\* Interp::run_terminator
ssa_run_terminator(s, t) ==
  CASE t.k = "Return" ->
         LET r == ssa_run_immediate(s, t.imm)
         IN  IF r.ok THEN goto(s, StReturn(r.val)) ELSE ssa_err(s, r.err)
    [] t.k = "Branch" -> goto(s, StBranch(t.br))
    [] t.k = "ConditionalBranch" ->
         LET r == ssa_run_immediate(s, t.cond)
         IN  IF ~r.ok THEN ssa_err(s, r.err)
             ELSE goto(s, StBranch(Branch(IF r.val # 0 THEN t.thn ELSE t.els, <<>>)))

\* the arithmetic of Interp::run_operation
ssa_prim1(prim, n) ==
  CASE prim = "BitNot" -> Wrap(-n - 1)
    [] prim = "IntToBool" -> IF n # 0 THEN 1 ELSE 0

ssa_prim2(prim, n, m) ==
  CASE prim = "Add" -> Wrap(n + m)
    [] prim = "Sub" -> Wrap(n - m)
    [] prim = "Mul" -> Wrap(n * m)
    [] prim = "BitAnd" -> BitOp("and", n, m)
    [] prim = "BitOr" -> BitOp("or", n, m)
    [] prim = "BitXor" -> BitOp("xor", n, m)
    [] prim = "Lt" -> IF n < m THEN 1 ELSE 0
    [] prim = "Le" -> IF n <= m THEN 1 ELSE 0
    [] prim = "Gt" -> IF n > m THEN 1 ELSE 0
    [] prim = "Ge" -> IF n >= m THEN 1 ELSE 0
    [] prim = "Eq" -> IF n = m THEN 1 ELSE 0
    [] prim = "Neq" -> IF n # m THEN 1 ELSE 0

\* Interp::run_operation
ssa_run_operation(s, op) ==
  CASE op.k = "Immediate" ->
         LET r == ssa_run_immediate(s, op.imm)
         IN  IF r.ok THEN goto(s, StOpReturn(r.val)) ELSE ssa_err(s, r.err)
    [] op.k = "Prim1" ->
         LET r == ssa_run_immediate(s, op.imm)
         IN  IF r.ok THEN goto(s, StOpReturn(ssa_prim1(op.op, r.val))) ELSE ssa_err(s, r.err)
    [] op.k = "Prim2" ->
         LET r1 == ssa_run_immediate(s, op.imm1)
             r2 == ssa_run_immediate(s, op.imm2)
         IN  IF ~r1.ok THEN ssa_err(s, r1.err)
             ELSE IF ~r2.ok THEN ssa_err(s, r2.err)
             ELSE goto(s, StOpReturn(ssa_prim2(op.op, r1.val, r2.val)))
    [] op.k = "Call" ->
         LET args == ssa_run_immediates(s, op.args)
         IN  IF args.ok THEN goto(s, StCall(op.fun, args.vals)) ELSE ssa_err(s, args.err)

\* Interp::new followed by the part of Interp::run before its loop
ssa_run(prog, val) ==
  LET s0 == [status |-> "run", state |-> StReturn(0),
             stack |-> [cur |-> FrameNew, rest |-> <<>>], kont |-> <<>>,
             blocks |-> extend_blocks(EmptyMap, prog.blocks, 0), out |-> 0, steps |-> 0]
  IN  IF prog.externs # <<>> THEN ssa_panic(s0, "extern functions are not supported")
      ELSE ssa_run_call(s0, prog.funs, Unmangled("entry"), <<val>>)

(***************************************************************************)
(* asm.rs: the instructions the emitter produces.                          *)
(***************************************************************************)
MemRef(reg, offset) == [reg |-> reg, offset |-> offset]

Signed(n) == [k |-> "Signed", n |-> n]

Reg(r) == [k |-> "Reg", reg |-> r]

Mem(m) == [k |-> "Mem", m |-> m]

ToReg(reg, a) == [k |-> "ToReg", reg |-> reg, arg |-> a]

ToMem(m, r) == [k |-> "ToMem", m |-> m, arg |-> r]

Mov(args) == [k |-> "Mov", args |-> args]

Bin(name, args) == [k |-> name, args |-> args]

Cmp(args) == [k |-> "Cmp", args |-> args]

Label(l) == [k |-> "Label", l |-> l]

Section(l) == [k |-> "Section", l |-> l]

Global(l) == [k |-> "Global", l |-> l]

Ret == [k |-> "Ret"]

Jmp(l) == [k |-> "Jmp", l |-> l]

JCC(cc, l) == [k |-> "JCC", cc |-> cc, l |-> l]

SetCC(cc, r8) == [k |-> "SetCC", cc |-> cc, reg |-> r8]

\* a panic of the emitter, kept in the place of the instructions it did not emit
Unwind(why) == [k |-> "panic", why |-> why]

(***************************************************************************)
(* backend.rs: the emitter.  An emit_ operator yields the instructions     *)
(* the function pushes; the emitter Env is threaded where the code         *)
(* mutates it.                                                             *)
(***************************************************************************)
\* an environment whose first slot is the word at rsp
EmitEnvZero == [next |-> 0, arena |-> EmptyMap, blocks |-> EmptyMap]

EmitEnvNew == [next |-> 1, arena |-> EmptyMap, blocks |-> EmptyMap]

\* an allocation that does not advance the counter
allocate_same_slot(env, x) == [env EXCEPT !.arena = Put(@, x, env.next)]

\* Env::allocate
allocate(env, x) == [env EXCEPT !.arena = Put(@, x, env.next), !.next = @ + 1]

RECURSIVE allocate_all(_, _)
allocate_all(env, xs) ==
  IF xs = <<>> THEN env ELSE allocate_all(allocate(env, Head(xs)), Tail(xs))

\* a registration that records the slot after the next one
RECURSIVE register_blocks_shifted(_, _)
register_blocks_shifted(env, blocks) ==
  IF blocks = <<>> THEN env
  ELSE register_blocks_shifted([env EXCEPT !.blocks = Put(@, Head(blocks).label, env.next + 1)],
                               Tail(blocks))

\* env.blocks.insert(label, env.next) for each of the blocks
RECURSIVE register_blocks(_, _)
register_blocks(env, blocks) ==
  IF blocks = <<>> THEN env
  ELSE register_blocks([env EXCEPT !.blocks = Put(@, Head(blocks).label, env.next)],
                       Tail(blocks))

load_signed(reg, val) == Mov(ToReg(reg, Signed(val)))

load_mem(reg, src) == Mov(ToReg(reg, Mem(MemRef("Rsp", -8 * src))))

store_mem(dst, reg) == Mov(ToMem(MemRef("Rsp", -8 * dst), Reg(reg)))

\* Emitter::emit_imm_reg, Env::lookup panicking on a variable without a slot
emit_imm_reg(imm, reg, env) ==
  IF imm.k = "Var"
  THEN IF imm.v \in DOMAIN env.arena THEN <<load_mem(reg, env.arena[imm.v])>>
       ELSE <<Unwind("variable not allocated")>>
  ELSE <<load_signed(reg, imm.n)>>

\* emit_cc without the mov that clears rax before setcc
emit_cc_uncleared(cc, ba) == <<Cmp(ba), SetCC(cc, "Al")>>

\* Emitter::emit_cc
emit_cc(cc, ba) == <<Cmp(ba), Mov(ToReg("Rax", Signed(0))), SetCC(cc, "Al")>>

\* Emitter::emit_branch
emit_branch(branch, env) ==
  IF branch.target \notin DOMAIN env.blocks THEN <<Unwind("no offset found for block")>>
  ELSE LET base == env.blocks[branch.target]
       IN  Concat([i \in 1..Len(branch.args) |->
                     emit_imm_reg(branch.args[i], "Rax", env)
                       \o <<store_mem(base + (i - 1), "Rax")>>])
             \o <<Jmp(DisplayBlock(branch.target))>>

\* Emitter::emit_terminator
emit_terminator(t, env) ==
  CASE t.k = "Return" -> emit_imm_reg(t.imm, "Rax", env) \o <<Ret>>
    [] t.k = "Branch" -> emit_branch(t.br, env)
    [] t.k = "ConditionalBranch" ->
         emit_imm_reg(t.cond, "Rax", env)
           \o <<Cmp(ToReg("Rax", Signed(0))), JCC("NE", DisplayBlock(t.thn)),
                Jmp(DisplayBlock(t.els))>>

\* the instructions of emit_operation that leave the result in rax
emit_op_rax(op, env) ==
  CASE op.k = "Immediate" -> emit_imm_reg(op.imm, "Rax", env)
    [] op.k = "Prim1" ->
         emit_imm_reg(op.imm, "Rax", env)
           \o (IF op.op = "BitNot"
               THEN <<Mov(ToReg("R10", Signed(-1))), Bin("Xor", ToReg("Rax", Reg("R10")))>>
               ELSE <<Cmp(ToReg("Rax", Signed(0))), Mov(ToReg("Rax", Signed(0))),
                      SetCC("NE", "Al")>>)
    [] op.k = "Prim2" ->
         LET ba == ToReg("Rax", Reg("R10"))
         IN  emit_imm_reg(op.imm1, "Rax", env) \o emit_imm_reg(op.imm2, "R10", env)
               \o (CASE op.op = "Add" -> <<Bin("Add", ba)>>
                     [] op.op = "Sub" -> <<Bin("Sub", ba)>>
                     [] op.op = "Mul" -> <<Bin("IMul", ba)>>
                     [] op.op = "BitAnd" -> <<Bin("And", ba)>>
                     [] op.op = "BitOr" -> <<Bin("Or", ba)>>
                     [] op.op = "BitXor" -> <<Bin("Xor", ba)>>
                     [] op.op = "Lt" -> emit_cc("L", ba)
                     [] op.op = "Gt" -> emit_cc("G", ba)
                     [] op.op = "Le" -> emit_cc("LE", ba)
                     [] op.op = "Ge" -> emit_cc("GE", ba)
                     [] op.op = "Eq" -> emit_cc("E", ba)
                     [] op.op = "Neq" -> emit_cc("NE", ba))
    [] op.k = "Call" -> <<Unwind("backend doesn't support calls yet")>>

\* Emitter::emit_operation
emit_operation(dest, op, env) ==
  [instrs |-> emit_op_rax(op, env) \o <<store_mem(env.next, "Rax")>>,
   env |-> allocate(env, dest)]

RECURSIVE emit_block_body(_, _)
\* Emitter::emit_block_body
emit_block_body(b, env) ==
  CASE b.k = "Terminator" -> emit_terminator(b.t, env)
    [] b.k = "Operation" ->
         LET o == emit_operation(b.dest, b.op, env)
         IN  o.instrs \o emit_block_body(b.next, o.env)
    [] b.k = "SubBlocks" ->
         LET env1 == register_blocks(env, b.blocks)
         IN  emit_block_body(b.next, env1)
               \o Concat([i \in 1..Len(b.blocks) |->
                            <<Label(DisplayBlock(b.blocks[i].label))>>
                              \o emit_block_body(b.blocks[i].body,
                                                 allocate_all(env1, b.blocks[i].params))])

\* Emitter::emit_basic_block
emit_basic_block(block, env) ==
  <<Label(DisplayBlock(block.label))>>
    \o emit_block_body(block.body, allocate_all(env, block.params))

\* Emitter::emit_fun_block
emit_fun_block(fun_block, env) ==
  <<Label(DisplayFun(fun_block.name))>>
    \o (IF fun_block.body.target \notin DOMAIN env.blocks
        THEN <<Unwind("no offset found for block")>>
        ELSE <<store_mem(env.blocks[fun_block.body.target] + 0, "Rdi"),
               Jmp(DisplayBlock(fun_block.body.target))>>)

\* Emitter::emit_extern
emit_extern(ext, env) == <<Unwind("backend doesn't support externs yet")>>

\* Emitter::emit_prog; a panic anywhere leaves no instruction list
emit_prog(prog) ==
  LET env == register_blocks(EmitEnvNew, prog.blocks)
      instrs ==
        <<Section(".data"), Section(".text"), Global("entry")>>
          \o Concat([i \in 1..Len(prog.externs) |-> emit_extern(prog.externs[i], EmitEnvNew)])
          \o Concat([i \in 1..Len(prog.blocks) |-> emit_basic_block(prog.blocks[i], env)])
          \o Concat([i \in 1..Len(prog.funs) |-> emit_fun_block(prog.funs[i], env)])
      unwinds == {i \in 1..Len(instrs) : instrs[i].k = "panic"}
  IN  IF unwinds = {} THEN [panic |-> FALSE, instrs |-> instrs]
      ELSE [panic |-> TRUE, instrs |-> <<>>,
            why |-> instrs[CHOOSE i \in unwinds : \A j \in unwinds : i <= j].why]

(***************************************************************************)
(* The machine the emitted instructions run on (runtime/stub.rs calls the  *)
(* label entry with the input in rdi and prints rax on return).  The       *)
(* machine is [status, pc, regs, flags, mem, out]: flags holds the two     *)
(* operands of the last comparison, mem maps offsets from rsp to values.   *)
(* A slot read before it is written holds an arbitrary value (junk).       *)
(***************************************************************************)
Garbage == {0, MinInt + 1}

\* the index of the first Label(l) of the instruction list, 0 if there is none
label_index(instrs, l) ==
  LET at == {i \in 1..Len(instrs) : instrs[i] = Label(l)}
  IN  IF at = {} THEN 0 ELSE CHOOSE i \in at : \A j \in at : i <= j

\* the value of a source operand
operand(cpu_, a, junk) ==
  CASE a.k = "Signed" -> Wrap(a.n)
    [] a.k = "Reg" -> cpu_.regs[a.reg]
    [] a.k = "Mem" -> IF a.m.offset \in DOMAIN cpu_.mem THEN cpu_.mem[a.m.offset] ELSE junk

\* whether a condition code holds after comparing a with b
holds(cc, a, b) ==
  CASE cc = "E" -> a = b [] cc = "NE" -> a # b [] cc = "L" -> a < b
    [] cc = "LE" -> a <= b [] cc = "G" -> a > b [] cc = "GE" -> a >= b

\* rax after setcc al: only the low byte of the register is written
set_low_byte(n, bit) ==
  LET u == n % Pow2(WordBits) IN Wrap(u - (u % 256) + bit)

jump(cpu_, instrs, l) ==
  IF label_index(instrs, l) = 0 THEN [cpu_ EXCEPT !.status = "fault"]
  ELSE [cpu_ EXCEPT !.pc = label_index(instrs, l)]

\* one instruction
cpu_step(cpu_, instrs, junk) ==
  LET i == IF cpu_.pc \in 1..Len(instrs) THEN instrs[cpu_.pc] ELSE [k |-> "none"]
      nxt == [cpu_ EXCEPT !.pc = @ + 1]
  IN  CASE i.k = "none" -> [cpu_ EXCEPT !.status = "fault"]
        [] i.k \in {"Section", "Global", "Label"} -> nxt
        [] i.k = "Mov" ->
             IF i.args.k = "ToReg"
             THEN [nxt EXCEPT !.regs[i.args.reg] = operand(cpu_, i.args.arg, junk)]
             ELSE [nxt EXCEPT !.mem = Put(@, i.args.m.offset,
                                          operand(cpu_, i.args.arg, junk))]
        [] i.k \in {"Add", "Sub", "IMul", "And", "Or", "Xor"} ->
             LET a == cpu_.regs[i.args.reg]
                 b == operand(cpu_, i.args.arg, junk)
                 r == CASE i.k = "Add" -> Wrap(a + b)
                        [] i.k = "Sub" -> Wrap(a - b)
                        [] i.k = "IMul" -> Wrap(a * b)
                        [] i.k = "And" -> BitOp("and", a, b)
                        [] i.k = "Or" -> BitOp("or", a, b)
                        [] i.k = "Xor" -> BitOp("xor", a, b)
             IN  [nxt EXCEPT !.regs[i.args.reg] = r, !.flags = [a |-> r, b |-> 0]]
        [] i.k = "Cmp" ->
             [nxt EXCEPT !.flags = [a |-> cpu_.regs[i.args.reg],
                                    b |-> operand(cpu_, i.args.arg, junk)]]
        [] i.k = "Jmp" -> jump(cpu_, instrs, i.l)
        [] i.k = "JCC" ->
             IF holds(i.cc, cpu_.flags.a, cpu_.flags.b) THEN jump(cpu_, instrs, i.l) ELSE nxt
        [] i.k = "SetCC" ->
             [nxt EXCEPT !.regs.Rax =
                set_low_byte(@, IF holds(i.cc, cpu_.flags.a, cpu_.flags.b) THEN 1 ELSE 0)]
        [] i.k = "Ret" -> [cpu_ EXCEPT !.status = "halt", !.out = cpu_.regs.Rax]

\* the machine as the stub enters the program
cpu_enter(instrs, val, rax0, r100) ==
  jump([status |-> "run", pc |-> 0, regs |-> [Rax |-> rax0, R10 |-> r100, Rdi |-> val],
        flags |-> [a |-> rax0, b |-> r100], mem |-> EmptyMap, out |-> 0],
       instrs, "entry")

CpuIdle == [status |-> "idle"]

SsaIdle == [status |-> "idle"]

(***************************************************************************)
(* The programs the compiler is run on, written with the constructors of   *)
(* ast.rs; the comment before each gives its concrete syntax.              *)
(***************************************************************************)
X == Var("x")

Y == Var("y")

Binary == {"Add", "Sub", "Mul", "And", "Or", "Lt", "Le", "Gt", "Ge", "Eq", "Neq"}

Unary == {"Add1", "Sub1", "Not"}

\* def main(x): x op 1        def main(x): -2 op x        def main(x): op(x)
PrimPrograms ==
  {Prim(op, <<X, Num(1)>>) : op \in Binary}
    \cup {Prim(op, <<Num(-2), X>>) : op \in Binary}
    \cup {Prim(op, <<X>>) : op \in Unary}

StraightPrograms == {
  \* let y = x * x in y + 1
  Let(<<Binding("y", Prim("Mul", <<X, X>>))>>, Prim("Add", <<Y, Num(1)>>)),
  \* if x < 0: 0 - x else: x
  If(Prim("Lt", <<X, Num(0)>>), Prim("Sub", <<Num(0), X>>), X),
  \* (if x < 1: x else: 2) + x
  Prim("Add", <<If(Prim("Lt", <<X, Num(1)>>), X, Num(2)), X>>),
  \* add1(if x: 1 else: 2)
  Prim("Add1", <<If(X, Num(1), Num(2))>>),
  \* (if x > 0: 1 else: 2) * (if x < 0: 3 else: x)
  Prim("Mul", <<If(Prim("Gt", <<X, Num(0)>>), Num(1), Num(2)),
                If(Prim("Lt", <<X, Num(0)>>), Num(3), X)>>),
  \* if x == 0: (if true: 1 else: 2) else: (let y = x in if y > 1: y else: 0 - y)
  If(Prim("Eq", <<X, Num(0)>>), If(Bool(TRUE), Num(1), Num(2)),
     Let(<<Binding("y", X)>>, If(Prim("Gt", <<Y, Num(1)>>), Y, Prim("Sub", <<Num(0), Y>>)))),
  \* let x = x + 1 in let x = x * 2 in x
  Let(<<Binding("x", Prim("Add", <<X, Num(1)>>))>>,
      Let(<<Binding("x", Prim("Mul", <<X, Num(2)>>))>>, X)),
  \* let y = 1, z = y + x in z * y
  Let(<<Binding("y", Num(1)), Binding("z", Prim("Add", <<Y, X>>))>>,
      Prim("Mul", <<Var("z"), Y>>)),
  \* x || 0
  Prim("Or", <<X, Num(0)>>),
  \* let x = 1, z = x + 1 in z + x
  Let(<<Binding("x", Num(1)), Binding("z", Prim("Add", <<X, Num(1)>>))>>,
      Prim("Add", <<Var("z"), X>>)),
  \* let y = 1 in let y = y + 1 in y - x
  Let(<<Binding("y", Num(1))>>,
      Let(<<Binding("y", Prim("Add", <<Y, Num(1)>>))>>, Prim("Sub", <<Y, X>>))),
  \* (x > 0) && (x < 2)
  Prim("And", <<Prim("Gt", <<X, Num(0)>>), Prim("Lt", <<X, Num(2)>>)>>),
  \* !(x == 1) || false
  Prim("Or", <<Prim("Not", <<Prim("Eq", <<X, Num(1)>>)>>), Bool(FALSE)>>),
  \* let y = (if x: 1 else: 2) in y + x
  Let(<<Binding("y", If(X, Num(1), Num(2)))>>, Prim("Add", <<Y, X>>)),
  \* if (let y = x in y > 0): 1 else: 0
  If(Let(<<Binding("y", X)>>, Prim("Gt", <<Y, Num(0)>>)), Num(1), Num(0)),
  \* let y = (let z = x in z + 1) in y * 2
  Let(<<Binding("y", Let(<<Binding("z", X)>>, Prim("Add", <<Var("z"), Num(1)>>)))>>,
      Prim("Mul", <<Y, Num(2)>>)),
  \* if x < 0: (if x < -1: 1 else: 2) + 3 else: sub1(x)
  If(Prim("Lt", <<X, Num(0)>>),
     Prim("Add", <<If(Prim("Lt", <<X, Num(-1)>>), Num(1), Num(2)), Num(3)>>),
     Prim("Sub1", <<X>>)),
  \* x * x * x
  Prim("Mul", <<Prim("Mul", <<X, X>>), X>>),
  \* 5
  Num(5),
  \* true
  Bool(TRUE) }

FunPrograms == {
  \* def f(a): a + x in f(1)
  FunDefs(<<FunDecl("f", <<"a">>, Prim("Add", <<Var("a"), X>>))>>, Call("f", <<Num(1)>>)),
  \* def f(a): a in f(x) + 1
  FunDefs(<<FunDecl("f", <<"a">>, Var("a"))>>, Prim("Add", <<Call("f", <<X>>), Num(1)>>)),
  \* if x <= 0: 0 else: main(x - 1) + 1
  If(Prim("Le", <<X, Num(0)>>), Num(0),
     Prim("Add", <<Call("main", <<Prim("Sub", <<X, Num(1)>>)>>), Num(1)>>)),
  \* if x <= 0: 7 else: main(x - 1)
  If(Prim("Le", <<X, Num(0)>>), Num(7), Call("main", <<Prim("Sub", <<X, Num(1)>>)>>)),
  \* def even(n): if n == 0: 1 else: odd(n - 1), odd(n): if n == 0: 0 else: even(n - 1)
  \* in even(x)
  FunDefs(<<FunDecl("even", <<"n">>,
                    If(Prim("Eq", <<Var("n"), Num(0)>>), Num(1),
                       Call("odd", <<Prim("Sub", <<Var("n"), Num(1)>>)>>))),
            FunDecl("odd", <<"n">>,
                    If(Prim("Eq", <<Var("n"), Num(0)>>), Num(0),
                       Call("even", <<Prim("Sub", <<Var("n"), Num(1)>>)>>)))>>,
          Call("even", <<X>>)),
  \* def f(a): (def g(b): b + a in g(x)) in f(1)
  FunDefs(<<FunDecl("f", <<"a">>,
                    FunDefs(<<FunDecl("g", <<"b">>, Prim("Add", <<Var("b"), Var("a")>>))>>,
                            Call("g", <<X>>)))>>,
          Call("f", <<Num(1)>>)),
  \* if (let y = 1 in y): (def f(a): a in f(2)) else: 0
  If(Let(<<Binding("y", Num(1))>>, Y),
     FunDefs(<<FunDecl("f", <<"a">>, Var("a"))>>, Call("f", <<Num(2)>>)), Num(0)),
  \* let a = (def f(p): p in f(1)) in a
  Let(<<Binding("a", FunDefs(<<FunDecl("f", <<"p">>, Var("p"))>>, Call("f", <<Num(1)>>)))>>,
      Var("a")),
  \* def f(a): a in (def f(a): a + 1 in f(x))
  FunDefs(<<FunDecl("f", <<"a">>, Var("a"))>>,
          FunDefs(<<FunDecl("f", <<"a">>, Prim("Add", <<Var("a"), Num(1)>>))>>,
                  Call("f", <<X>>))),
  \* def f(): x in f()
  FunDefs(<<FunDecl("f", <<>>, X)>>, Call("f", <<>>)),
  \* def f(a, b): a - b in f(x, 1)
  FunDefs(<<FunDecl("f", <<"a", "b">>, Prim("Sub", <<Var("a"), Var("b")>>))>>,
          Call("f", <<X, Num(1)>>)),
  \* def f(a): a * 2 in let y = f(x) in y + 1
  FunDefs(<<FunDecl("f", <<"a">>, Prim("Mul", <<Var("a"), Num(2)>>))>>,
          Let(<<Binding("y", Call("f", <<X>>))>>, Prim("Add", <<Y, Num(1)>>))),
  \* def fact(n): if n <= 1: 1 else: n * fact(n - 1) in fact(x)
  FunDefs(<<FunDecl("fact", <<"n">>,
                    If(Prim("Le", <<Var("n"), Num(1)>>), Num(1),
                       Prim("Mul", <<Var("n"),
                                     Call("fact", <<Prim("Sub", <<Var("n"), Num(1)>>)>>)>>)))>>,
          Call("fact", <<X>>)),
  \* if x: (let y = 1 in y) else: (def f(a): a in f(1))
  If(X, Let(<<Binding("y", Num(1))>>, Y),
     FunDefs(<<FunDecl("f", <<"a">>, Var("a"))>>, Call("f", <<Num(1)>>))),
  \* if (let y = 1 in y): (def f(a): a in f(1)) else: 2
  If(Let(<<Binding("y", Num(1))>>, Y),
     FunDefs(<<FunDecl("f", <<"a">>, Var("a"))>>, Call("f", <<Num(1)>>)), Num(2)),
  \* let a = (def f(p): p in f(1)) in a
  Let(<<Binding("a", FunDefs(<<FunDecl("f", <<"p">>, Var("p"))>>, Call("f", <<Num(1)>>)))>>,
      Var("a")),
  \* (def f(a): a in f(1)) + (let y = 1 in y)
  Prim("Add", <<FunDefs(<<FunDecl("f", <<"a">>, Var("a"))>>, Call("f", <<Num(1)>>)),
                Let(<<Binding("y", Num(1))>>, Y)>>),
  \* let y = 2 in def f(a): a + y in f(x)
  Let(<<Binding("y", Num(2))>>,
      FunDefs(<<FunDecl("f", <<"a">>, Prim("Add", <<Var("a"), Y>>))>>, Call("f", <<X>>))),
  \* def f(a): if a <= 0: x else: f(a - 1) + 1 in f(x)
  FunDefs(<<FunDecl("f", <<"a">>,
                    If(Prim("Le", <<Var("a"), Num(0)>>), X,
                       Prim("Add", <<Call("f", <<Prim("Sub", <<Var("a"), Num(1)>>)>>),
                                     Num(1)>>)))>>,
          Call("f", <<X>>)),
  \* def loop(n, acc): if n <= 0: acc else: loop(n - 1, acc + n) in loop(x, 0)
  FunDefs(<<FunDecl("loop", <<"n", "acc">>,
                    If(Prim("Le", <<Var("n"), Num(0)>>), Var("acc"),
                       Call("loop", <<Prim("Sub", <<Var("n"), Num(1)>>),
                                      Prim("Add", <<Var("acc"), Var("n")>>)>>)))>>,
          Call("loop", <<X, Num(0)>>)),
  \* def main(a, b): a + b in main(x, 1)
  FunDefs(<<FunDecl("main", <<"a", "b">>, Prim("Add", <<Var("a"), Var("b")>>))>>,
          Call("main", <<X, Num(1)>>)) }

\* programs the resolver rejects
BadPrograms == {
  \* y
  Y,
  \* x + y
  Prim("Add", <<X, Y>>),
  \* let y = y in y
  Let(<<Binding("y", Y)>>, Y),
  \* let z = y, y = 1 in z
  Let(<<Binding("z", Y), Binding("y", Num(1))>>, Var("z")),
  \* let y = 1 in z
  Let(<<Binding("y", Num(1))>>, Var("z")),
  \* let a = b, b = 1 in a
  Let(<<Binding("a", Var("b")), Binding("b", Num(1))>>, Var("a")),
  \* (def f(a): a in f(1)) + a
  Prim("Add", <<FunDefs(<<FunDecl("f", <<"a">>, Var("a"))>>, Call("f", <<Num(1)>>)),
                Var("a")>>),
  \* if x: (let y = 1 in y) else: y
  If(X, Let(<<Binding("y", Num(1))>>, Y), Y),
  \* x + (let y = 1 in y) * y
  Prim("Add", <<X, Prim("Mul", <<Let(<<Binding("y", Num(1))>>, Y), Y>>)>>),
  \* let y = 1, y = 2 in y
  Let(<<Binding("y", Num(1)), Binding("y", Num(2))>>, Y),
  \* let y = 1, z = 2, y = z in y
  Let(<<Binding("y", Num(1)), Binding("z", Num(2)), Binding("y", Var("z"))>>, Y),
  \* let y = z, y = 2 in y
  Let(<<Binding("y", Var("z")), Binding("y", Num(2))>>, Y),
  \* let y = 1 in (let z = 2, z = 3 in z)
  Let(<<Binding("y", Num(1))>>, Let(<<Binding("z", Num(2)), Binding("z", Num(3))>>, Var("z"))),
  \* def f(a): (let a = 1, a = 2 in a) in f(1)
  FunDefs(<<FunDecl("f", <<"a">>,
                    Let(<<Binding("a", Num(1)), Binding("a", Num(2))>>, Var("a")))>>,
          Call("f", <<Num(1)>>)),
  \* def f(a): a in f(1, 2)
  FunDefs(<<FunDecl("f", <<"a">>, Var("a"))>>, Call("f", <<Num(1), Num(2)>>)),
  \* main(1, 2)
  Call("main", <<Num(1), Num(2)>>),
  \* main()
  Call("main", <<>>),
  \* def f(a): a in f()
  FunDefs(<<FunDecl("f", <<"a">>, Var("a"))>>, Call("f", <<>>)),
  \* def f(): 1 in f(x)
  FunDefs(<<FunDecl("f", <<>>, Num(1))>>, Call("f", <<X>>)),
  \* g(1)
  Call("g", <<Num(1)>>),
  \* entry(x)
  Call("entry", <<X>>),
  \* (def f(a): a in 1) + f(2)
  Prim("Add", <<FunDefs(<<FunDecl("f", <<"a">>, Var("a"))>>, Num(1)), Call("f", <<Num(2)>>)>>),
  \* def f(a): g(a) in (def g(b): b in f(1))
  FunDefs(<<FunDecl("f", <<"a">>, Call("g", <<Var("a")>>))>>,
          FunDefs(<<FunDecl("g", <<"b">>, Var("b"))>>, Call("f", <<Num(1)>>))),
  \* def f(a): a, f(b): b in f(1)
  FunDefs(<<FunDecl("f", <<"a">>, Var("a")), FunDecl("f", <<"b">>, Var("b"))>>,
          Call("f", <<Num(1)>>)),
  \* def f(a, a): a in f(1, 2)
  FunDefs(<<FunDecl("f", <<"a", "a">>, Var("a"))>>, Call("f", <<Num(1), Num(2)>>)),
  \* g(y)
  Call("g", <<Y>>),
  \* main(y, 1)
  Call("main", <<Y, Num(1)>>),
  \* y + main(1, 2)
  Prim("Add", <<Y, Call("main", <<Num(1), Num(2)>>)>>),
  \* y + g(1)
  Prim("Add", <<Y, Call("g", <<Num(1)>>)>>),
  \* y + (let a = 1, a = 2 in a)
  Prim("Add", <<Y, Let(<<Binding("a", Num(1)), Binding("a", Num(2))>>, Var("a"))>>),
  \* y + (def f(a): a, f(b): b in 1)
  Prim("Add", <<Y, FunDefs(<<FunDecl("f", <<"a">>, Var("a")), FunDecl("f", <<"b">>, Var("b"))>>,
                           Num(1))>>) }

\* programs with extern declarations: <<externs, body>>
ExternPrograms == {
  \* extern entry(a, b)   def main(x): entry(1, 2)
  <<<<ExtDecl("entry", <<"a", "b">>)>>, Call("entry", <<Num(1), Num(2)>>)>>,
  \* extern entry(a, b)   def main(x): entry(x, 2) + 1
  <<<<ExtDecl("entry", <<"a", "b">>)>>,
    Prim("Add", <<Call("entry", <<X, Num(2)>>), Num(1)>>)>>,
  \* extern print(a)   def main(x): print(x)
  <<<<ExtDecl("print", <<"a">>)>>, Call("print", <<X>>)>>,
  \* extern f(a)   def main(x): def f(b, c): b in f(x, 1)
  <<<<ExtDecl("f", <<"a">>)>>,
    FunDefs(<<FunDecl("f", <<"b", "c">>, Var("b"))>>, Call("f", <<X, Num(1)>>))>>,
  \* extern g(a)  extern h()   def main(x): g(h()) + main(x)
  <<<<ExtDecl("g", <<"a">>), ExtDecl("h", <<>>)>>,
    Prim("Add", <<Call("g", <<Call("h", <<>>)>>), Call("main", <<X>>)>>)>>,
  \* extern main(a)   def main(x): x
  <<<<ExtDecl("main", <<"a">>)>>, X>>,
  \* extern f(a, a)   def main(x): x
  <<<<ExtDecl("f", <<"a", "a">>)>>, X>>,
  \* extern f(a)  extern f(b)   def main(x): x
  <<<<ExtDecl("f", <<"a">>), ExtDecl("f", <<"b">>)>>, X>>,
  \* extern f(a)   def main(x): f(1, 2)
  <<<<ExtDecl("f", <<"a">>)>>, Call("f", <<Num(1), Num(2)>>)>>,
  \* extern f(x)   def main(x): f(y)
  <<<<ExtDecl("f", <<"x">>)>>, Call("f", <<Y>>)>>,
  \* extern f(a, a)  extern g()  extern g()   def main(x): x
  <<<<ExtDecl("f", <<"a", "a">>), ExtDecl("g", <<>>), ExtDecl("g", <<>>)>>, X>>,
  \* extern p(a)  extern q(a)   def main(x): p(1) + q(2)
  <<<<ExtDecl("p", <<"a">>), ExtDecl("q", <<"a">>)>>,
    Prim("Add", <<Call("p", <<Num(1)>>), Call("q", <<Num(2)>>)>>)>>,
  \* extern p(a)  extern q(a)  extern r(a, b)   def main(x): r(p(1), q(x))
  <<<<ExtDecl("p", <<"a">>), ExtDecl("q", <<"a">>), ExtDecl("r", <<"a", "b">>)>>,
    Call("r", <<Call("p", <<Num(1)>>), Call("q", <<X>>)>>)>>,
  \* extern p(a)  extern q(a)  extern r(a)
  \* def main(x): (if x: p(1) else: q(2)) * r(3)
  <<<<ExtDecl("p", <<"a">>), ExtDecl("q", <<"a">>), ExtDecl("r", <<"a">>)>>,
    Prim("Mul", <<If(X, Call("p", <<Num(1)>>), Call("q", <<Num(2)>>)),
                  Call("r", <<Num(3)>>)>>)>>,
  \* extern p(a)  extern q(a)  extern r(a)
  \* def main(x): def f(a, b): a - b in f(r(3), if x: p(1) else: q(2))
  <<<<ExtDecl("p", <<"a">>), ExtDecl("q", <<"a">>), ExtDecl("r", <<"a">>)>>,
    FunDefs(<<FunDecl("f", <<"a", "b">>, Prim("Sub", <<Var("a"), Var("b")>>))>>,
            Call("f", <<Call("r", <<Num(3)>>),
                        If(X, Call("p", <<Num(1)>>), Call("q", <<Num(2)>>))>>))>> }

Programs ==
  {Prog(<<>>, "x", body) :
     body \in PrimPrograms \cup StraightPrograms \cup FunPrograms \cup BadPrograms}
    \cup {Prog(p[1], "x", p[2]) : p \in ExternPrograms}

\* the integers a program is run on
Inputs == (-MaxArg .. MaxArg) \cup {MinInt, MaxInt} \cup {42, 5, -7}

(***************************************************************************)
(* The compilation and the three executions of one program.                *)
(***************************************************************************)
Init ==
  /\ source \in Programs
  /\ input = 0
  /\ phase = "parsed"
  /\ resolved = Err(<<>>)
  /\ gens = NewGens
  /\ astOut = Timeout
  /\ ssaProg = [panic |-> FALSE]
  /\ ssaState = SsaIdle
  /\ asmProg = [panic |-> FALSE, instrs |-> <<>>]
  /\ cpu = CpuIdle

\* compile.rs: the frontend
Resolve ==
  /\ phase = "parsed"
  /\ resolved' = resolve_prog(source, NewGens)
  /\ gens' = IF resolved'.ok THEN resolved'.g ELSE gens
  /\ phase' = IF resolved'.ok THEN "resolved" ELSE "rejected"
  /\ UNCHANGED <<source, input, astOut, ssaProg, ssaState, asmProg, cpu>>

\* compile.rs: the middle end, on the Lowerer made from the Resolver
Lower ==
  /\ phase = "resolved"
  /\ ssaProg' = lower_prog(resolved.val, gens)
  /\ gens' = ssaProg'.g
  /\ phase' = "lowered"
  /\ UNCHANGED <<source, input, resolved, astOut, ssaState, asmProg, cpu>>

\* compile.rs: the backend
Emit ==
  /\ phase = "lowered"
  /\ asmProg' = emit_prog(ssaProg.prog)
  /\ phase' = "emitted"
  /\ UNCHANGED <<source, input, resolved, gens, astOut, ssaProg, ssaState, cpu>>

\* the AST interpreter runs the bound program on an input
RunAst ==
  /\ phase = "emitted"
  /\ \E n \in Inputs :
       /\ input' = n
       /\ astOut' = run_prog(resolved.val, n, MaxCalls)
  /\ phase' = "ast"
  /\ UNCHANGED <<source, resolved, gens, ssaProg, ssaState, asmProg, cpu>>

\* Interp::run up to its loop
SsaStart ==
  /\ phase = "ast"
  /\ ssaState' = ssa_run(ssaProg.prog, input)
  /\ phase' = "ssa"
  /\ UNCHANGED <<source, input, resolved, gens, astOut, ssaProg, asmProg, cpu>>

\* one turn of the loop of Interp::run is taken when the interpreter is in state kind
SsaTurn(kind) ==
  /\ phase = "ssa"
  /\ ssaState.status = "run"
  /\ ssaState.steps < MaxSteps
  /\ ssaState.state.k = kind
  /\ UNCHANGED <<source, input, phase, resolved, gens, astOut, ssaProg, asmProg, cpu>>

tick(s) == [s EXCEPT !.steps = @ + 1]

\* State::Return
SsaReturn ==
  /\ SsaTurn("Return")
  /\ ssaState' =
       LET s == tick(ssaState)
           n == Len(s.kont)
       IN  IF n = 0 THEN [s EXCEPT !.status = "ok", !.out = s.state.val]
           ELSE IF s.stack.rest = <<>> THEN ssa_panic(s, "exit without a frame")
           ELSE goto(alloc(exit([s EXCEPT !.kont = SubSeq(@, 1, n - 1)]),
                           s.kont[n].dest, s.state.val),
                     StBlockBody(s.kont[n].next))

\* State::OpReturn
SsaOpReturn ==
  /\ SsaTurn("OpReturn")
  /\ ssaState' =
       LET s == tick(ssaState)
           n == Len(s.kont)
       IN  IF n = 0 THEN ssa_panic(s, "no return kont for operation")
           ELSE goto(alloc([s EXCEPT !.kont = SubSeq(@, 1, n - 1)],
                           s.kont[n].dest, s.state.val),
                     StBlockBody(s.kont[n].next))

\* State::Operation
SsaOperation ==
  /\ SsaTurn("Operation")
  /\ ssaState' =
       LET s == tick(ssaState)
       IN  ssa_run_operation([s EXCEPT !.kont = Append(@, [dest |-> s.state.dest,
                                                           next |-> s.state.next])],
                             s.state.op)

\* State::Call
SsaCall ==
  /\ SsaTurn("Call")
  /\ ssaState' =
       LET s == tick(ssaState)
       IN  ssa_run_call(enter(s), ssaProg.prog.funs, s.state.fun, s.state.args)

\* State::Branch
SsaBranch ==
  /\ SsaTurn("Branch")
  /\ ssaState' = ssa_run_branch(tick(ssaState), ssaState.state.branch)

\* State::BlockBody
SsaBlockBody ==
  /\ SsaTurn("BlockBody")
  /\ ssaState' = ssa_run_block_body(tick(ssaState), ssaState.state.body)

\* State::Terminator
SsaTerminator ==
  /\ SsaTurn("Terminator")
  /\ ssaState' = ssa_run_terminator(tick(ssaState), ssaState.state.t)

\* the interpretation is followed no further
SsaGiveUp ==
  /\ phase = "ssa"
  /\ ssaState.status = "run"
  /\ ssaState.steps = MaxSteps
  /\ ssaState' = [ssaState EXCEPT !.status = "timeout"]
  /\ UNCHANGED <<source, input, phase, resolved, gens, astOut, ssaProg, asmProg, cpu>>

\* the stub calls entry(input); rax and r10 hold whatever the caller left
CpuStart ==
  /\ phase = "ssa"
  /\ ssaState.status # "run"
  /\ ~asmProg.panic
  /\ \E junk \in Garbage : cpu' = [steps |-> 0] @@ cpu_enter(asmProg.instrs, input, junk, junk)
  /\ phase' = "cpu"
  /\ UNCHANGED <<source, input, resolved, gens, astOut, ssaProg, ssaState, asmProg>>

\* the machine executes the instruction at pc
CpuStep ==
  /\ phase = "cpu"
  /\ cpu.status = "run"
  /\ cpu.steps < MaxSteps
  /\ \E junk \in Garbage :
       cpu' = cpu_step([cpu EXCEPT !.steps = @ + 1], asmProg.instrs, junk)
  /\ UNCHANGED <<source, input, phase, resolved, gens, astOut, ssaProg, ssaState, asmProg>>

\* the run is followed no further
CpuGiveUp ==
  /\ phase = "cpu"
  /\ cpu.status = "run"
  /\ cpu.steps = MaxSteps
  /\ cpu' = [cpu EXCEPT !.status = "timeout"]
  /\ UNCHANGED <<source, input, phase, resolved, gens, astOut, ssaProg, ssaState, asmProg>>

Next ==
  \/ Resolve
  \/ Lower
  \/ Emit
  \/ RunAst
  \/ SsaStart
  \/ SsaReturn
  \/ SsaOpReturn
  \/ SsaOperation
  \/ SsaCall
  \/ SsaBranch
  \/ SsaBlockBody
  \/ SsaTerminator
  \/ SsaGiveUp
  \/ CpuStart
  \/ CpuStep
  \/ CpuGiveUp

Spec == Init /\ [][Next]_vars

(***************************************************************************)
(* Properties.  First the vocabulary they share.                           *)
(***************************************************************************)
Resolved == phase \notin {"parsed", "rejected"}

Lowered == phase \in {"lowered", "emitted", "ast", "ssa", "cpu"}

Emitted == phase \in {"emitted", "ast", "ssa", "cpu"}

\* the SSA interpretation ended within the steps it is followed for
SsaFinished == phase \in {"ssa", "cpu"} /\ ssaState.status \notin {"run", "timeout"}

Halted == phase = "cpu" /\ cpu.status = "halt"

NoRepeat(seq) == \A i, j \in 1..Len(seq) : i # j => seq[i] # seq[j]

\* an expression of literals, variables, primitives, let and if only
RECURSIVE Simple(_)
Simple(e) ==
  CASE e.k \in {"Num", "Bool", "Var"} -> TRUE
    [] e.k = "Prim" -> \A i \in 1..Len(e.args) : Simple(e.args[i])
    [] e.k = "Let" ->
         Simple(e.body) /\ \A i \in 1..Len(e.bindings) : Simple(e.bindings[i].expr)
    [] e.k = "If" -> Simple(e.cond) /\ Simple(e.thn) /\ Simple(e.els)
    [] OTHER -> FALSE

\* def main(x): add1(x)
Add1Program == Prog(<<>>, "x", Prim("Add1", <<X>>))

\* def main(x): let y = x * x in y + 1
SquareProgram ==
  Prog(<<>>, "x", Let(<<Binding("y", Prim("Mul", <<X, X>>))>>, Prim("Add", <<Y, Num(1)>>)))

\* def main(x): if x < 0: 0 - x else: x
AbsProgram ==
  Prog(<<>>, "x", If(Prim("Lt", <<X, Num(0)>>), Prim("Sub", <<Num(0), X>>), X))

\* def main(x): def f(a): a in f(x) + 1
NonTailCallProgram ==
  Prog(<<>>, "x", FunDefs(<<FunDecl("f", <<"a">>, Var("a"))>>,
                          Prim("Add", <<Call("f", <<X>>), Num(1)>>)))

\* def main(x): def f(a): a + x in f(1)
CaptureProgram ==
  Prog(<<>>, "x", FunDefs(<<FunDecl("f", <<"a">>, Prim("Add", <<Var("a"), X>>))>>,
                          Call("f", <<Num(1)>>)))

\* extern entry(a, b)   def main(x): entry(1, 2)
ExternEntryProgram ==
  Prog(<<ExtDecl("entry", <<"a", "b">>)>>, "x", Call("entry", <<Num(1), Num(2)>>))

\* C1: for a program without externs that resolves, whenever the AST
\* interpreter returns an integer on the bound program, the SSA interpreter
\* finishes on the lowered program with the same integer (wrapping arithmetic);
\* this covers local functions called in non-tail position, recursion and
\* captured variables.  Runs either interpreter is not followed to the end of
\* are left out.
C1_SameInteger ==
  (SsaFinished /\ source.externs = <<>> /\ astOut.t # "timeout")
    => (astOut.t = "ok" /\ ssaState.status = "ok" /\ ssaState.out = astOut.v)

\* C1, the case that fails: the SSA interpreter indexes its function map with the
\* name of a Call that no FunBlock carries
C1_PanicReached ==
  /\ source = NonTailCallProgram
  /\ SsaFinished
  /\ astOut.t = "ok"
  /\ ssaState.status = "panic"

\* C2: for a resolved program of literals, variables, primitives, let and if
\* the emitter produces an instruction list, and running it from the label
\* entry with rdi = n reaches ret (no fault, within the steps followed) with
\* rax the integer the AST interpreter returns on n; add1(x) on 42 gives 43,
\* let y = x * x in y + 1 on 5 gives 26, if x < 0: 0 - x else: x on -7 gives 7.
C2_EmittedCodeAgrees ==
  (Simple(source.body) /\ source.externs = <<>>)
    => /\ Emitted => ~asmProg.panic
       /\ phase = "cpu" => cpu.status \in {"run", "halt"}
       /\ Halted => (astOut.t = "ok" /\ cpu.out = astOut.v)
       /\ (Halted /\ source = Add1Program /\ input = 42) => cpu.out = 43
       /\ (Halted /\ source = SquareProgram /\ input = 5) => cpu.out = 26
       /\ (Halted /\ source = AbsProgram /\ input = -7) => cpu.out = 7

\* C2: the absolute-value program ran to ret on -7
C2_AbsOfMinusSeven == Halted /\ source = AbsProgram /\ input = -7 /\ cpu.out = 7

\* the VarNames a block body defines, in order
RECURSIVE body_defs(_)
body_defs(b) ==
  CASE b.k = "Terminator" -> <<>>
    [] b.k = "Operation" -> <<b.dest>> \o body_defs(b.next)
    [] b.k = "SubBlocks" ->
         Concat([i \in 1..Len(b.blocks) |->
                   b.blocks[i].params \o body_defs(b.blocks[i].body)])
           \o body_defs(b.next)

\* every definition of a VarName in an SSA program: block parameters,
\* FunBlock parameters and Operation destinations
ProgDefs(prog) ==
  Concat([i \in 1..Len(prog.blocks) |->
            prog.blocks[i].params \o body_defs(prog.blocks[i].body)])
    \o Concat([i \in 1..Len(prog.funs) |-> prog.funs[i].params])

\* C3: in a lowered program every VarName occurs at most once among all
\* basic-block parameters, FunBlock parameters and Operation destinations.
C3_SingleDefinition == Lowered => NoRepeat(ProgDefs(ssaProg.prog))

\* C3, the case that fails: a captured variable is a parameter of the block it
\* comes from, of the tail block and of the FunBlock of the capturing function
C3_CapturedDefinedAgain ==
  /\ source = CaptureProgram
  /\ Lowered
  /\ Cardinality({i \in 1..Len(ProgDefs(ssaProg.prog)) :
                    ProgDefs(ssaProg.prog)[i] = VarName(0, "x")}) = 3

\* the labels of a block list with their parameter counts, added to a scope
RECURSIVE with_blocks(_, _)
with_blocks(scope, blocks) ==
  IF blocks = <<>> THEN scope
  ELSE with_blocks(Put(scope, Head(blocks).label, Len(Head(blocks).params)), Tail(blocks))

branch_ok(br, scope) ==
  br.target \in DOMAIN scope /\ Len(br.args) = scope[br.target]

\* every branch of a block body goes to a label of the scope (the blocks of
\* the enclosing SubBlocks and the top-level blocks) with as many arguments as
\* the label has parameters, every conditional branch to parameterless blocks
RECURSIVE branches_ok(_, _)
branches_ok(b, scope) ==
  CASE b.k = "Terminator" ->
         (CASE b.t.k = "Return" -> TRUE
            [] b.t.k = "Branch" -> branch_ok(b.t.br, scope)
            [] b.t.k = "ConditionalBranch" ->
                 /\ b.t.thn \in DOMAIN scope /\ scope[b.t.thn] = 0
                 /\ b.t.els \in DOMAIN scope /\ scope[b.t.els] = 0)
    [] b.k = "Operation" -> branches_ok(b.next, scope)
    [] b.k = "SubBlocks" ->
         LET inner == with_blocks(scope, b.blocks)
         IN  /\ branches_ok(b.next, inner)
             /\ \A i \in 1..Len(b.blocks) : branches_ok(b.blocks[i].body, inner)

\* C4: in a lowered program every Branch, of a terminator or of a FunBlock,
\* targets a label that is defined and in scope with as many arguments as the
\* block has parameters, and both targets of a ConditionalBranch are blocks
\* without parameters.
C4_BranchesMatchBlocks ==
  Lowered =>
    LET prog == ssaProg.prog
        top == with_blocks(EmptyMap, prog.blocks)
    IN  /\ \A i \in 1..Len(prog.blocks) : branches_ok(prog.blocks[i].body, top)
        /\ \A i \in 1..Len(prog.funs) : branch_ok(prog.funs[i].body, top)

\* C4, the case that fails: the tail call to the extern named entry became a
\* branch with two arguments to the block of main, which has one parameter
C4_TwoArgumentsToMainTail ==
  /\ source = ExternEntryProgram
  /\ Lowered
  /\ \E i \in 1..Len(ssaProg.prog.blocks) :
       LET blk == ssaProg.prog.blocks[i]
       IN  /\ blk.label = BlockName(0, "main_tail")
           /\ Len(blk.params) = 1
           /\ body_defs(blk.body) # <<>>
           /\ ~branches_ok(blk.body, with_blocks(EmptyMap, ssaProg.prog.blocks))

\* the Call operations of a block body, as [fun, n]: the name called and the
\* number of arguments
RECURSIVE body_calls(_)
body_calls(b) ==
  CASE b.k = "Terminator" -> {}
    [] b.k = "Operation" ->
         (IF b.op.k = "Call" THEN {[fun |-> b.op.fun, n |-> Len(b.op.args)]} ELSE {})
           \cup body_calls(b.next)
    [] b.k = "SubBlocks" ->
         body_calls(b.next) \cup UNION {body_calls(b.blocks[i].body) : i \in 1..Len(b.blocks)}

ProgCalls(prog) == UNION {body_calls(prog.blocks[i].body) : i \in 1..Len(prog.blocks)}

\* the parameter counts of what a FunName of a Call stands for: an extern of
\* that name, the FunBlock lifted from the local declaration of that name, the
\* entry (one parameter)
DeclaredArities(f) ==
  LET prog == ssaProg.prog
  IN  {Len(prog.externs[i].params) : i \in {j \in 1..Len(prog.externs) :
                                              prog.externs[j].name = f}}
        \cup {Len(prog.funs[i].params) :
                i \in {j \in 1..Len(prog.funs) :
                         \E l \in 1..Len(ssaProg.lifted) :
                           /\ ssaProg.lifted[l].decl = f
                           /\ ssaProg.lifted[l].fun = prog.funs[j].name}}
        \cup (IF f = resolved.val.name THEN {1} ELSE {})

ErrorKinds == {"UnboundVariable", "DuplicateVariable", "UnboundFunction",
               "DuplicateFunction", "DuplicateParameter", "ArityMismatch"}

\* the parameters that repeat an earlier parameter of the same list
RepeatedParams(params) ==
  {[kind |-> "DuplicateParameter", name |-> params[i].p, loc |-> params[i].loc] :
     i \in {i \in 1..Len(params) : \E j \in 1..(i - 1) : params[j].p = params[i].p}}

\* fs with the declarations of a block added
RECURSIVE with_decls(_, _)
with_decls(fs, decls) ==
  IF decls = <<>> THEN fs
  ELSE with_decls(Put(fs, Head(decls).name, Len(Head(decls).params)), Tail(decls))

RECURSIVE Violations(_, _, _)
Violations(e, vs, fs) ==
  CASE e.k = "Var" ->
         IF e.v \in vs THEN {} ELSE {[kind |-> "UnboundVariable", name |-> e.v, loc |-> e.loc]}
    [] e.k = "Prim" -> UNION {Violations(e.args[i], vs, fs) : i \in 1..Len(e.args)}
    [] e.k = "Let" ->
         LET n == Len(e.bindings)
             before(i) == {e.bindings[j].var : j \in 1..(i - 1)}
         IN  {[kind |-> "DuplicateVariable", name |-> e.bindings[i].var,
               loc |-> e.bindings[i].vloc] :
                i \in {i \in 1..n : e.bindings[i].var \in before(i)}}
               \cup UNION {Violations(e.bindings[i].expr, vs \cup before(i), fs) : i \in 1..n}
               \cup Violations(e.body, vs \cup before(n + 1), fs)
    [] e.k = "If" ->
         Violations(e.cond, vs, fs) \cup Violations(e.thn, vs, fs)
           \cup Violations(e.els, vs, fs)
    [] e.k = "FunDefs" ->
         LET n == Len(e.decls)
             inner == with_decls(fs, e.decls)
         IN  {[kind |-> "DuplicateFunction", name |-> e.decls[i].name,
               loc |-> e.decls[i].loc] :
                i \in {i \in 1..n : \E j \in 1..(i - 1) : e.decls[j].name = e.decls[i].name}}
               \cup UNION {RepeatedParams(e.decls[i].params) : i \in 1..n}
               \cup UNION {Violations(e.decls[i].body,
                                      vs \cup {e.decls[i].params[j].p :
                                                 j \in 1..Len(e.decls[i].params)},
                                      inner) : i \in 1..n}
               \cup Violations(e.body, vs, inner)
    [] e.k = "Call" ->
         (IF e.fun \notin DOMAIN fs
          THEN {[kind |-> "UnboundFunction", name |-> e.fun, loc |-> e.loc]}
          ELSE IF fs[e.fun] # Len(e.args)
          THEN {[kind |-> "ArityMismatch", name |-> e.fun, expected |-> fs[e.fun],
                 found |-> Len(e.args), loc |-> e.loc]}
          ELSE {})
           \cup UNION {Violations(e.args[i], vs, fs) : i \in 1..Len(e.args)}
    [] OTHER -> {}

\* the violations of a program: the entry is a function of one parameter, the
\* externs are functions, the parameter of the entry is the one variable
ProgViolations(prog) ==
  LET n == Len(prog.externs)
  IN  {[kind |-> "DuplicateFunction", name |-> prog.externs[i].name,
        loc |-> prog.externs[i].loc] :
         i \in {i \in 1..n : \/ prog.externs[i].name = prog.name
                             \/ \E j \in 1..(i - 1) :
                                  prog.externs[j].name = prog.externs[i].name}}
        \cup UNION {RepeatedParams(prog.externs[i].params) : i \in 1..n}
        \cup Violations(prog.body, {prog.param.p},
                        with_decls((prog.name :> 1), prog.externs))

\* every violation of the program is of this kind, and there is one
Only(kind) ==
  /\ ProgViolations(source) # {}
  /\ \A v \in ProgViolations(source) : v.kind = kind

\* the resolver failed with an error of this kind
FailedWith(kind) == phase = "rejected" /\ resolved.err.kind = kind

\* scope with the first n bindings of a let added: surface name to VarName
RECURSIVE with_bindings(_, _, _, _)
with_bindings(scope, sb, bb, n) ==
  IF n = 0 THEN scope
  ELSE Put(with_bindings(scope, sb, bb, n - 1), sb[n].var, bb[n].var)

RECURSIVE with_params(_, _, _)
with_params(scope, sp, bp) ==
  IF sp = <<>> THEN scope
  ELSE with_params(Put(scope, Head(sp).p, Head(bp).p), Tail(sp), Tail(bp))

\* the bound expression b is the surface expression s with every variable
\* occurrence replaced by the VarName of the innermost binding of its name in
\* scope; scope maps the names in scope to the VarName of that binding site
RECURSIVE WellScoped(_, _, _)
WellScoped(b, s, scope) ==
  /\ b.k = s.k
  /\ CASE s.k = "Var" -> s.v \in DOMAIN scope /\ b.v = scope[s.v]
       [] s.k = "Prim" ->
            /\ Len(b.args) = Len(s.args)
            /\ \A i \in 1..Len(s.args) : WellScoped(b.args[i], s.args[i], scope)
       [] s.k = "Let" ->
            /\ Len(b.bindings) = Len(s.bindings)
            /\ \A i \in 1..Len(s.bindings) :
                 WellScoped(b.bindings[i].expr, s.bindings[i].expr,
                            with_bindings(scope, s.bindings, b.bindings, i - 1))
            /\ WellScoped(b.body, s.body,
                          with_bindings(scope, s.bindings, b.bindings, Len(s.bindings)))
       [] s.k = "If" ->
            /\ WellScoped(b.cond, s.cond, scope)
            /\ WellScoped(b.thn, s.thn, scope)
            /\ WellScoped(b.els, s.els, scope)
       [] s.k = "FunDefs" ->
            /\ Len(b.decls) = Len(s.decls)
            /\ \A i \in 1..Len(s.decls) :
                 /\ Len(b.decls[i].params) = Len(s.decls[i].params)
                 /\ WellScoped(b.decls[i].body, s.decls[i].body,
                               with_params(scope, s.decls[i].params, b.decls[i].params))
            /\ WellScoped(b.body, s.body, scope)
       [] s.k = "Call" ->
            /\ Len(b.args) = Len(s.args)
            /\ \A i \in 1..Len(s.args) : WellScoped(b.args[i], s.args[i], scope)
       [] OTHER -> b = s

\* the VarNames at the binding sites of a bound expression: let bindings and
\* function parameters
RECURSIVE binding_sites(_)
binding_sites(b) ==
  CASE b.k = "Prim" -> Concat([i \in 1..Len(b.args) |-> binding_sites(b.args[i])])
    [] b.k = "Let" ->
         Concat([i \in 1..Len(b.bindings) |->
                   <<b.bindings[i].var>> \o binding_sites(b.bindings[i].expr)])
           \o binding_sites(b.body)
    [] b.k = "If" -> binding_sites(b.cond) \o binding_sites(b.thn) \o binding_sites(b.els)
    [] b.k = "FunDefs" ->
         Concat([i \in 1..Len(b.decls) |->
                   [j \in 1..Len(b.decls[i].params) |-> b.decls[i].params[j].p]
                     \o binding_sites(b.decls[i].body)])
           \o binding_sites(b.body)
    [] b.k = "Call" -> Concat([i \in 1..Len(b.args) |-> binding_sites(b.args[i])])
    [] OTHER -> <<>>

\* the bound program has the variables of the surface program, well scoped
BoundWellScoped ==
  WellScoped(resolved.val.body, source.body, (source.param.p :> resolved.val.param.p))

\* def main(x): let x = x + 1 in let x = x * 2 in x
ShadowProgram ==
  Prog(<<>>, "x", Let(<<Binding("x", Prim("Add", <<X, Num(1)>>))>>,
                      Let(<<Binding("x", Prim("Mul", <<X, Num(2)>>))>>, X)))

\* C6: resolve_prog returns an error of one of the six kinds, or a bound
\* program in which every variable occurrence carries the VarName of the
\* innermost binding site of its name in scope (the parameter of the entry, a
\* function parameter or a let binding) and in which the binding sites carry
\* pairwise distinct VarNames.
C6_ErrorOrWellScoped ==
  phase # "parsed" =>
    IF resolved.ok
    THEN /\ BoundWellScoped
         /\ NoRepeat(<<resolved.val.param.p>> \o binding_sites(resolved.val.body))
    ELSE resolved.err.kind \in ErrorKinds

\* C6: a program with two lets that shadow the parameter resolved to three
\* binding sites, the body referring to the innermost
C6_ShadowingResolved ==
  /\ source = ShadowProgram
  /\ Resolved
  /\ Len(binding_sites(resolved.val.body)) = 2
  /\ resolved.val.body.body.body.v = resolved.val.body.body.bindings[1].var

\* def main(x): y
FreeProgram == Prog(<<>>, "x", Y)

\* C7: when unbound variable references are all a program violates,
\* resolve_prog fails with UnboundVariable carrying the name and the location
\* of such a reference, and the message of the driver is: variable "<name>"
\* unbound; an UnboundVariable error always names an unbound reference.
C7_UnboundVariable ==
  phase # "parsed" =>
    /\ Only("UnboundVariable") =>
         /\ FailedWith("UnboundVariable")
         /\ resolved.err \in ProgViolations(source)
         /\ SubSeq(report_error(resolved.err), 1, 3)
              = <<"variable \"", resolved.err.name, "\" unbound: ">>
    /\ FailedWith("UnboundVariable") => resolved.err \in ProgViolations(source)
    /\ source = FreeProgram =>
         /\ FailedWith("UnboundVariable")
         /\ report_error(resolved.err) = <<"variable \"", "y", "\" unbound: ">>

\* C7: def main(x): y was rejected for the y of its body
C7_FreeVariableRejected ==
  /\ source = FreeProgram
  /\ FailedWith("UnboundVariable")
  /\ resolved.err.name = "y"
  /\ resolved.err.loc = source.body.loc

\* def main(x): let y = 1, y = 2 in y
LetDupeProgram ==
  Prog(<<>>, "x", Let(<<Binding("y", Num(1)), Binding("y", Num(2))>>, Y))

\* the program violates the rule of this kind somewhere
Some(kind) == \E v \in ProgViolations(source) : v.kind = kind

\* C8 as stated: resolve_prog fails with DuplicateVariable exactly when two
\* bindings of the same let share a name.
C8_ExactlyWhenDuplicate ==
  phase # "parsed" => (FailedWith("DuplicateVariable") <=> Some("DuplicateVariable"))

\* C8: resolve_prog fails with DuplicateVariable only for a let two bindings
\* of which share a name, the error carrying the name and the location of a
\* repeated binding, and it does so whenever such lets are all the program
\* violates; a program with such a let and other violations is rejected with
\* one of its violations, the first the resolver meets; a let that rebinds a name of an enclosing let or of a parameter
\* resolves, the references of its body getting the VarName of the inner binding.
C8_DuplicateVariable ==
  phase # "parsed" =>
    /\ FailedWith("DuplicateVariable") => resolved.err \in ProgViolations(source)
    /\ Some("DuplicateVariable") =>
         phase = "rejected" /\ resolved.err \in ProgViolations(source)
    /\ Only("DuplicateVariable") =>
         /\ FailedWith("DuplicateVariable")
         /\ resolved.err \in ProgViolations(source)
         /\ SubSeq(report_error(resolved.err), 1, 3)
              = <<"variable \"", resolved.err.name, "\" defined twice in let-expression: ">>
    /\ source = ShadowProgram =>
         /\ resolved.ok
         /\ BoundWellScoped
         /\ resolved.val.body.body.body.v = resolved.val.body.body.bindings[1].var
         /\ resolved.val.body.body.body.v # resolved.val.body.bindings[1].var
         /\ resolved.val.body.body.body.v # resolved.val.param.p

\* C8: def main(x): let y = 1, y = 2 in y was rejected for its second binding
C8_LetDupeRejected ==
  /\ source = LetDupeProgram
  /\ FailedWith("DuplicateVariable")
  /\ resolved.err.name = "y"
  /\ resolved.err.loc = source.body.bindings[2].vloc

\* def main(x): def f(a): a in f(1, 2)
ArityProgram ==
  Prog(<<>>, "x", FunDefs(<<FunDecl("f", <<"a">>, Var("a"))>>, Call("f", <<Num(1), Num(2)>>)))

\* def main(x): main(1, 2)
EntryArityProgram == Prog(<<>>, "x", Call("main", <<Num(1), Num(2)>>))

\* C9 as stated: a call with n arguments to a function in scope declared with
\* m parameters, n # m, makes resolve_prog fail with ArityMismatch{name,
\* expected: m, found: n}.
C9_EveryMismatchReported ==
  phase # "parsed" =>
    (Some("ArityMismatch") =>
       (FailedWith("ArityMismatch") /\ resolved.err \in ProgViolations(source)))

\* C9: a call with n arguments to a function in scope declared with m
\* parameters (1 for the entry), n # m, makes resolve_prog fail with
\* ArityMismatch{name, expected: m, found: n} when such calls are all the
\* program violates, and fail with one of the program's violations, the first
\* the resolver meets, otherwise; an ArityMismatch error always reports such a call, so a
\* call with n = m never produces one.
C9_ArityMismatch ==
  phase # "parsed" =>
    /\ Some("ArityMismatch") =>
         phase = "rejected" /\ resolved.err \in ProgViolations(source)
    /\ Only("ArityMismatch") =>
         /\ FailedWith("ArityMismatch")
         /\ resolved.err \in ProgViolations(source)
    /\ FailedWith("ArityMismatch") =>
         /\ resolved.err \in ProgViolations(source)
         /\ resolved.err.expected # resolved.err.found
    /\ source = ArityProgram =>
         /\ FailedWith("ArityMismatch")
         /\ resolved.err.name = "f" /\ resolved.err.expected = 1 /\ resolved.err.found = 2
    /\ source = EntryArityProgram =>
         /\ FailedWith("ArityMismatch")
         /\ resolved.err.name = "main" /\ resolved.err.expected = 1 /\ resolved.err.found = 2

\* C9: def main(x): def f(a): a in f(1, 2) was rejected: f, expected 1, found 2
C9_ArityRejected ==
  /\ source = ArityProgram
  /\ FailedWith("ArityMismatch")
  /\ resolved.err.name = "f"
  /\ resolved.err.expected = 1
  /\ resolved.err.found = 2
  /\ resolved.err.loc = source.body.body.loc

\* the bound expression b calls, where the surface expression s calls a name,
\* the FunName of the innermost declaration of that name in scope; fscope maps
\* the function names in scope to the FunName of their declaration
RECURSIVE CallsBound(_, _, _)
CallsBound(b, s, fscope) ==
  CASE s.k = "Prim" -> \A i \in 1..Len(s.args) : CallsBound(b.args[i], s.args[i], fscope)
    [] s.k = "Let" ->
         /\ \A i \in 1..Len(s.bindings) :
              CallsBound(b.bindings[i].expr, s.bindings[i].expr, fscope)
         /\ CallsBound(b.body, s.body, fscope)
    [] s.k = "If" ->
         /\ CallsBound(b.cond, s.cond, fscope)
         /\ CallsBound(b.thn, s.thn, fscope)
         /\ CallsBound(b.els, s.els, fscope)
    [] s.k = "FunDefs" ->
         LET inner == [f \in DOMAIN fscope \cup {s.decls[i].name : i \in 1..Len(s.decls)} |->
                         IF \E i \in 1..Len(s.decls) : s.decls[i].name = f
                         THEN b.decls[CHOOSE i \in 1..Len(s.decls) : s.decls[i].name = f].name
                         ELSE fscope[f]]
         IN  /\ \A i \in 1..Len(s.decls) : CallsBound(b.decls[i].body, s.decls[i].body, inner)
             /\ CallsBound(b.body, s.body, inner)
    [] s.k = "Call" ->
         /\ s.fun \in DOMAIN fscope
         /\ b.fun = fscope[s.fun]
         /\ \A i \in 1..Len(s.args) : CallsBound(b.args[i], s.args[i], fscope)
    [] OTHER -> TRUE

\* the functions in scope of the body of the entry: the entry and the externs
TopFunctions ==
  [f \in {source.name} \cup {source.externs[i].name : i \in 1..Len(source.externs)} |->
     IF f = source.name THEN resolved.val.name
     ELSE resolved.val.externs[CHOOSE i \in 1..Len(source.externs) :
                                 source.externs[i].name = f].name]

\* def main(x):
\*   def even(n): if n == 0: 1 else: odd(n - 1),
\*       odd(n): if n == 0: 0 else: even(n - 1)
\*   in even(x)
EvenOddProgram ==
  Prog(<<>>, "x",
       FunDefs(<<FunDecl("even", <<"n">>,
                         If(Prim("Eq", <<Var("n"), Num(0)>>), Num(1),
                            Call("odd", <<Prim("Sub", <<Var("n"), Num(1)>>)>>))),
                 FunDecl("odd", <<"n">>,
                         If(Prim("Eq", <<Var("n"), Num(0)>>), Num(0),
                            Call("even", <<Prim("Sub", <<Var("n"), Num(1)>>)>>)))>>,
               Call("even", <<X>>)))

\* C10 as stated: a call to a name that is not an extern, the entry or a
\* function of an enclosing block fails with UnboundFunction carrying the name
\* and the location of the call.
C10_EveryUnboundCallReported ==
  phase # "parsed" =>
    (Some("UnboundFunction") =>
       (FailedWith("UnboundFunction") /\ resolved.err \in ProgViolations(source)))

\* C10: a call resolves to the declaration of its name that is in scope: an
\* extern, the entry, or a function of an enclosing function-definition block,
\* the functions of a block being in scope in the body of every declaration
\* of the block and in the body of the block; a program that violates nothing
\* resolves; a call to a name not in scope fails with UnboundFunction carrying
\* the name and the location of the call, when such calls are all the program
\* violates, and with one of the program's violations, the first the resolver
\* meets, otherwise; UnboundFunction always reports such a call.
C10_UnboundFunction ==
  phase # "parsed" =>
    /\ resolved.ok => CallsBound(resolved.val.body, source.body, TopFunctions)
    /\ ProgViolations(source) = {} => resolved.ok
    /\ Some("UnboundFunction") =>
         phase = "rejected" /\ resolved.err \in ProgViolations(source)
    /\ Only("UnboundFunction") =>
         /\ FailedWith("UnboundFunction")
         /\ resolved.err \in ProgViolations(source)
    /\ FailedWith("UnboundFunction") => resolved.err \in ProgViolations(source)
    /\ source = EvenOddProgram => resolved.ok

\* C10: in the bound even/odd program the call of odd in the body of even
\* carries the FunName of the second declaration, that of even in the body of
\* odd the FunName of the first
C10_MutualRecursionResolved ==
  /\ source = EvenOddProgram
  /\ Resolved
  /\ resolved.val.body.decls[1].body.els.fun = resolved.val.body.decls[2].name
  /\ resolved.val.body.decls[2].body.els.fun = resolved.val.body.decls[1].name
  /\ resolved.val.body.body.fun = resolved.val.body.decls[1].name

(***************************************************************************)
(* C11: DuplicateFunction and the shadowing of functions.                  *)
(***************************************************************************)
\* two externs share a name, or two declarations of one block share a name
SharedFunctionName ==
  \/ \E i, j \in 1..Len(source.externs) :
       i < j /\ source.externs[i].name = source.externs[j].name
  \/ \E v \in Violations(source.body, {source.param.p},
                         with_decls((source.name :> 1), source.externs)) :
       v.kind = "DuplicateFunction"

\* extern f(a)  extern f(b)   def main(x): x
TwoExternsProgram == Prog(<<ExtDecl("f", <<"a">>), ExtDecl("f", <<"b">>)>>, "x", X)

\* def main(x): def f(a): a in (def f(a): a + 1 in f(x))
ShadowBlockProgram ==
  Prog(<<>>, "x",
       FunDefs(<<FunDecl("f", <<"a">>, Var("a"))>>,
               FunDefs(<<FunDecl("f", <<"a">>, Prim("Add", <<Var("a"), Num(1)>>))>>,
                       Call("f", <<X>>))))

\* extern f(a)   def main(x): def f(b, c): b in f(x, 1)
ShadowExternProgram ==
  Prog(<<ExtDecl("f", <<"a">>)>>, "x",
       FunDefs(<<FunDecl("f", <<"b", "c">>, Var("b"))>>, Call("f", <<X, Num(1)>>)))

\* def main(x): def main(a, b): a + b in main(x, 1)
ShadowEntryProgram ==
  Prog(<<>>, "x",
       FunDefs(<<FunDecl("main", <<"a", "b">>, Prim("Add", <<Var("a"), Var("b")>>))>>,
               Call("main", <<X, Num(1)>>)))

\* C11 as stated: resolve_prog fails with DuplicateFunction when two externs
\* share a name or when two declarations of the same block share a name.
C11_EveryDuplicateReported ==
  phase # "parsed" => (SharedFunctionName => FailedWith("DuplicateFunction"))

\* C11: a program in which two externs, or two declarations of one block,
\* share a name is rejected: with DuplicateFunction carrying the name and the
\* location of the repeated declaration when such declarations are all the
\* program violates, with the first violation the resolver meets otherwise;
\* a declaration that reuses the name of a function of an enclosing block, of
\* an extern or of the entry is accepted, and calls in its scope carry its
\* FunName.
C11_DuplicateFunction ==
  phase # "parsed" =>
    /\ SharedFunctionName =>
         phase = "rejected" /\ resolved.err \in ProgViolations(source)
    /\ Only("DuplicateFunction") =>
         /\ FailedWith("DuplicateFunction")
         /\ resolved.err \in ProgViolations(source)
         /\ SubSeq(report_error(resolved.err), 1, 3)
              = <<"multiple defined functions named \"", resolved.err.name, "\": ">>
    /\ FailedWith("DuplicateFunction") => resolved.err \in ProgViolations(source)
    /\ source = ShadowBlockProgram =>
         /\ resolved.ok
         /\ resolved.val.body.body.body.fun = resolved.val.body.body.decls[1].name
         /\ resolved.val.body.body.body.fun # resolved.val.body.decls[1].name
    /\ source = ShadowExternProgram =>
         /\ resolved.ok
         /\ resolved.val.body.body.fun = resolved.val.body.decls[1].name
         /\ resolved.val.body.body.fun # resolved.val.externs[1].name
    /\ source = ShadowEntryProgram =>
         /\ resolved.ok
         /\ resolved.val.body.body.fun = resolved.val.body.decls[1].name
         /\ resolved.val.body.body.fun # resolved.val.name

\* C11: extern f(a) extern f(b) def main(x): x was rejected for the second f
C11_TwoExternsRejected ==
  /\ source = TwoExternsProgram
  /\ FailedWith("DuplicateFunction")
  /\ resolved.err.name = "f"
  /\ resolved.err.loc = source.externs[2].loc

(***************************************************************************)
(* C12: the order of evaluation in the lowered program.  An event is a     *)
(* primitive operation, a Call operation or a branch out of the block to   *)
(* the tail block of a function; a path is the sequence of the events of   *)
(* one execution of a block up to its return or tail call.                 *)
(***************************************************************************)
\* the blocks of a SubBlocks added to those in scope: label to block
RECURSIVE scope_with(_, _)
scope_with(scope, blocks) ==
  IF blocks = <<>> THEN scope
  ELSE scope_with(Put(scope, Head(blocks).label, Head(blocks)), Tail(blocks))

\* the paths of a block body; scope holds the sub-blocks a branch may target
RECURSIVE ssa_paths(_, _)
ssa_paths(b, scope) ==
  CASE b.k = "Operation" ->
         LET ev == CASE b.op.k = "Call" -> <<[k |-> "call", name |-> b.op.fun.hint]>>
                     [] b.op.k = "Prim2" -> <<[k |-> "prim", name |-> b.op.op]>>
                     [] OTHER -> <<>>
         IN  {ev \o p : p \in ssa_paths(b.next, scope)}
    [] b.k = "SubBlocks" -> ssa_paths(b.next, scope_with(scope, b.blocks))
    [] b.k = "Terminator" ->
         (CASE b.t.k = "Return" -> {<<>>}
            [] b.t.k = "Branch" ->
                 IF b.t.br.target \in DOMAIN scope
                 THEN ssa_paths(scope[b.t.br.target].body, scope)
                 ELSE {<<[k |-> "branch", name |-> b.t.br.target.hint]>>}
            [] b.t.k = "ConditionalBranch" ->
                 ssa_paths(scope[b.t.thn].body, scope)
                   \cup ssa_paths(scope[b.t.els].body, scope))

\* the operation a primitive of the source is computed by
PrimEvent(prim) ==
  CASE prim = "Add1" -> "Add" [] prim = "Sub1" -> "Sub" [] prim = "Not" -> "BitXor"
    [] prim = "And" -> "BitAnd" [] prim = "Or" -> "BitOr" [] OTHER -> prim

\* the paths of a bound expression evaluated left to right, each argument once
RECURSIVE ast_paths(_), ast_seq_paths(_)
ast_seq_paths(es) ==
  IF es = <<>> THEN {<<>>}
  ELSE {p \o q : p \in ast_paths(Head(es)), q \in ast_seq_paths(Tail(es))}

ast_paths(e) ==
  CASE e.k = "Prim" ->
         {p \o <<[k |-> "prim", name |-> PrimEvent(e.prim)]>> : p \in ast_seq_paths(e.args)}
    [] e.k = "Call" ->
         {p \o <<[k |-> "call", name |-> e.fun.hint]>> : p \in ast_seq_paths(e.args)}
    [] e.k = "Let" ->
         {p \o q : p \in ast_seq_paths([i \in 1..Len(e.bindings) |-> e.bindings[i].expr]),
                   q \in ast_paths(e.body)}
    [] e.k = "If" ->
         {p \o q : p \in ast_paths(e.cond), q \in ast_paths(e.thn) \cup ast_paths(e.els)}
    [] e.k = "FunDefs" -> ast_paths(e.body)
    [] OTHER -> {<<>>}

\* the bodies of the functions of a bound expression
RECURSIVE fun_bodies(_)
fun_bodies(e) ==
  CASE e.k = "Prim" -> UNION {fun_bodies(e.args[i]) : i \in 1..Len(e.args)}
    [] e.k = "Call" -> UNION {fun_bodies(e.args[i]) : i \in 1..Len(e.args)}
    [] e.k = "Let" ->
         UNION {fun_bodies(e.bindings[i].expr) : i \in 1..Len(e.bindings)}
           \cup fun_bodies(e.body)
    [] e.k = "If" -> fun_bodies(e.cond) \cup fun_bodies(e.thn) \cup fun_bodies(e.els)
    [] e.k = "FunDefs" ->
         {e.decls[i].body : i \in 1..Len(e.decls)}
           \cup UNION {fun_bodies(e.decls[i].body) : i \in 1..Len(e.decls)}
           \cup fun_bodies(e.body)
    [] OTHER -> {}

\* an event of the lowered program is that of the source: the same operation,
\* the same callee, or a branch to the tail block of the callee
EventMatch(s, a) ==
  \/ s = a
  \/ /\ s.k = "branch" /\ a.k = "call"
     /\ \/ s.name = a.name \o "_tail"
        \/ s.name = "main_tail" /\ a.name = "entry"

PathMatch(p, q) == Len(p) = Len(q) /\ \A i \in 1..Len(p) : EventMatch(p[i], q[i])

PathsMatch(ps, qs) ==
  /\ \A p \in ps : \E q \in qs : PathMatch(p, q)
  /\ \A q \in qs : \E p \in ps : PathMatch(p, q)

\* the paths of the top-level blocks of the lowered program
BlockPaths ==
  {ssa_paths(ssaProg.prog.blocks[i].body, EmptyMap) : i \in 1..Len(ssaProg.prog.blocks)}

\* the paths of the body of the entry and of every function of the source
UnitPaths ==
  {ast_paths(b) : b \in {resolved.val.body} \cup fun_bodies(resolved.val.body)}

\* extern p(a)  extern q(a)   def main(x): p(1) + q(2)
PrintOrderProgram ==
  Prog(<<ExtDecl("p", <<"a">>), ExtDecl("q", <<"a">>)>>, "x",
       Prim("Add", <<Call("p", <<Num(1)>>), Call("q", <<Num(2)>>)>>))

\* extern p(a)  extern q(a)  extern r(a)
\* def main(x): (if x: p(1) else: q(2)) * r(3)
BranchOrderProgram ==
  Prog(<<ExtDecl("p", <<"a">>), ExtDecl("q", <<"a">>), ExtDecl("r", <<"a">>)>>, "x",
       Prim("Mul", <<If(X, Call("p", <<Num(1)>>), Call("q", <<Num(2)>>)),
                     Call("r", <<Num(3)>>)>>))

\* C12: in the lowered program every path of every block carries the events
\* of a left-to-right evaluation of the source, each argument of a primitive
\* or call evaluated once, before the arguments after it and before the
\* primitive or call itself; extern calls happen in source order.
C12_ArgumentsLeftToRight ==
  Lowered =>
    /\ \A ps \in BlockPaths : \E qs \in UnitPaths : PathsMatch(ps, qs)
    /\ \A qs \in UnitPaths : \E ps \in BlockPaths : PathsMatch(ps, qs)
    /\ source = PrintOrderProgram =>
         ssa_paths(ssaProg.prog.blocks[1].body, EmptyMap)
           = {<<[k |-> "call", name |-> "p"], [k |-> "call", name |-> "q"],
                [k |-> "prim", name |-> "Add"]>>}
    /\ source = BranchOrderProgram =>
         ssa_paths(ssaProg.prog.blocks[1].body, EmptyMap)
           = {<<[k |-> "call", name |-> "p"], [k |-> "call", name |-> "r"],
                [k |-> "prim", name |-> "Mul"]>>,
              <<[k |-> "call", name |-> "q"], [k |-> "call", name |-> "r"],
                [k |-> "prim", name |-> "Mul"]>>}

\* C12: (if x: p(1) else: q(2)) * r(3) was lowered, r called after p on one
\* path and after q on the other
C12_BranchOrderLowered ==
  /\ source = BranchOrderProgram
  /\ Lowered
  /\ \A p \in ssa_paths(ssaProg.prog.blocks[1].body, EmptyMap) :
       /\ p[1].name \in {"p", "q"}
       /\ p[2].name = "r"

(***************************************************************************)
(* C13: tail calls of local functions.                                     *)
(***************************************************************************)
\* a FunName of the bound program that stands for a local function: the
\* entry or a declaration of a block (externs are unmangled)
IsLocalFun(f) == f.mangled \/ f = resolved.val.name

\* the paths of a bound expression; tail says that it is evaluated with
\* continuation Return: a call of a local function is then a branch
RECURSIVE tail_paths(_, _), tail_seq_paths(_)
tail_seq_paths(es) ==
  IF es = <<>> THEN {<<>>}
  ELSE {p \o q : p \in tail_paths(Head(es), FALSE), q \in tail_seq_paths(Tail(es))}

tail_paths(e, tail) ==
  CASE e.k = "Prim" ->
         {p \o <<[k |-> "prim", name |-> PrimEvent(e.prim)]>> : p \in tail_seq_paths(e.args)}
    [] e.k = "Call" ->
         {p \o <<[k |-> IF tail /\ IsLocalFun(e.fun) THEN "branch" ELSE "call",
                  name |-> e.fun.hint]>> : p \in tail_seq_paths(e.args)}
    [] e.k = "Let" ->
         {p \o q : p \in tail_seq_paths([i \in 1..Len(e.bindings) |-> e.bindings[i].expr]),
                   q \in tail_paths(e.body, tail)}
    [] e.k = "If" ->
         {p \o q : p \in tail_paths(e.cond, FALSE),
                   q \in tail_paths(e.thn, tail) \cup tail_paths(e.els, tail)}
    [] e.k = "FunDefs" -> tail_paths(e.body, tail)
    [] OTHER -> {<<>>}

\* an event of the lowered program is the one expected: the same operation, a
\* Call of the same callee, or a branch to the tail block of the callee
SameEvent(s, a) ==
  /\ s.k = a.k
  /\ \/ s.name = a.name
     \/ /\ s.k = "branch"
        /\ \/ s.name = a.name \o "_tail"
           \/ s.name = "main_tail" /\ a.name = "entry"
  /\ s.k = "branch" => s.name # a.name

SamePaths(ps, qs) ==
  /\ \A p \in ps : \E q \in qs :
       Len(p) = Len(q) /\ \A i \in 1..Len(p) : SameEvent(p[i], q[i])
  /\ \A q \in qs : \E p \in ps :
       Len(p) = Len(q) /\ \A i \in 1..Len(p) : SameEvent(p[i], q[i])

\* the paths of the body of the entry and of every function, each body being
\* in tail position
TailUnitPaths ==
  {tail_paths(b, TRUE) : b \in {resolved.val.body} \cup fun_bodies(resolved.val.body)}

\* every call of the bound expression is a call of a local function in tail position
RECURSIVE AllTail(_, _)
AllTail(e, tail) ==
  CASE e.k = "Prim" -> \A i \in 1..Len(e.args) : AllTail(e.args[i], FALSE)
    [] e.k = "Call" ->
         /\ tail
         /\ IsLocalFun(e.fun)
         /\ \A i \in 1..Len(e.args) : AllTail(e.args[i], FALSE)
    [] e.k = "Let" ->
         /\ \A i \in 1..Len(e.bindings) : AllTail(e.bindings[i].expr, FALSE)
         /\ AllTail(e.body, tail)
    [] e.k = "If" ->
         AllTail(e.cond, FALSE) /\ AllTail(e.thn, tail) /\ AllTail(e.els, tail)
    [] e.k = "FunDefs" ->
         /\ \A i \in 1..Len(e.decls) : AllTail(e.decls[i].body, TRUE)
         /\ AllTail(e.body, tail)
    [] OTHER -> TRUE

\* def main(x): def loop(n, acc): if n <= 0: acc else: loop(n - 1, acc + n) in loop(x, 0)
LoopProgram ==
  Prog(<<>>, "x",
       FunDefs(<<FunDecl("loop", <<"n", "acc">>,
                         If(Prim("Le", <<Var("n"), Num(0)>>), Var("acc"),
                            Call("loop", <<Prim("Sub", <<Var("n"), Num(1)>>),
                                           Prim("Add", <<Var("acc"), Var("n")>>)>>)))>>,
               Call("loop", <<X, Num(0)>>)))

\* C13: a call of a local function (of the block, of an enclosing block, the
\* entry) lowered with continuation Return is a Branch terminator to the tail
\* block of the function and no Call operation, every other call is a Call
\* operation; when all the calls of a program are such tail calls the lowered
\* program has no Call operation and the SSA interpreter never enters a frame
\* nor keeps more than the continuation of the operation under way.
C13_TailCallsBranch ==
  Lowered =>
    /\ \A ps \in BlockPaths : \E qs \in TailUnitPaths : SamePaths(ps, qs)
    /\ \A qs \in TailUnitPaths : \E ps \in BlockPaths : SamePaths(ps, qs)
    /\ AllTail(resolved.val.body, TRUE) =>
         /\ ProgCalls(ssaProg.prog) = {}
         /\ phase \in {"ssa", "cpu"} =>
              /\ ssaState.stack.rest = <<>>
              /\ Len(ssaState.kont) <= 1

\* C13: loop(2, 0) returned 3 after two iterations, in the frame it began in
C13_LoopInOneFrame ==
  /\ source = LoopProgram
  /\ input = 2
  /\ phase = "ssa"
  /\ ssaState.status = "ok"
  /\ ssaState.out = 3
  /\ ssaState.stack.rest = <<>>

(***************************************************************************)
(* C14: the emitter on every lowered program.                              *)
(***************************************************************************)
\* extern print(a) def main(x): print(x)
ExternCallProgram ==
  Prog(<<ExtDecl("print", <<"a">>)>>, "x", Call("print", <<X>>))

\* C14: emit_prog completes without panicking on every lowered program, also
\* on a program that declares externs and on one with Call operations.
C14_EmitterCompletes == Emitted => ~asmProg.panic

\* C14, the cases that fail: the emitter stopped at the first extern
\* declaration of a program whose only call is a call of that extern
C14_EmitterPanicked ==
  /\ source = ExternCallProgram
  /\ Emitted
  /\ asmProg.panic
  /\ asmProg.why = "backend doesn't support externs yet"
  /\ ProgCalls(ssaProg.prog) # {}

(***************************************************************************)
(* C15: the AST interpreter on the surface program and on the bound one.   *)
(***************************************************************************)
\* the AST interpreter on the surface program, whose names are strings
SurfaceOut == run_prog(source, input, MaxCalls)

\* def main(x): let x = 1, z = x + 1 in z + x
SiblingShadowProgram ==
  Prog(<<>>, "x",
       Let(<<Binding("x", Num(1)), Binding("z", Prim("Add", <<X, Num(1)>>))>>,
           Prim("Add", <<Var("z"), X>>)))

\* C15: on a program without externs that resolves, and on every input, the
\* AST interpreter returns the same integer on the surface program as on the
\* bound program (or follows as many calls on both), also when variables or
\* functions are shadowed.
C15_SurfaceAndBoundAgree ==
  (phase = "ast" /\ source.externs = <<>>)
    => /\ astOut.t \in {"ok", "timeout"}
       /\ SurfaceOut.t = astOut.t
       /\ astOut.t = "ok" => SurfaceOut.v = astOut.v

\* C15: a let that rebinds x and uses it in the next binding gave 3 on both
C15_ShadowedSiblingAgrees ==
  /\ source = SiblingShadowProgram
  /\ phase = "ast"
  /\ input = 2
  /\ astOut.t = "ok"
  /\ astOut.v = 3
  /\ SurfaceOut = astOut

(***************************************************************************)
(* C16: what the Call operations name.                                     *)
(***************************************************************************)
\* the names a Call of the lowered program can be run or linked with
CallableNames ==
  LET prog == ssaProg.prog
  IN  {prog.funs[i].name : i \in 1..Len(prog.funs)}
        \cup {prog.externs[i].name : i \in 1..Len(prog.externs)}

\* C16: every Call operation of a lowered program names a FunBlock or an
\* Extern of that program; for a call of a local function it is the FunBlock
\* lifted from the declaration called.
C16_CallsNameFunBlocks ==
  Lowered =>
    \A c \in ProgCalls(ssaProg.prog) :
      /\ c.fun \in CallableNames
      /\ \A l \in 1..Len(ssaProg.lifted) :
           ssaProg.lifted[l].decl = c.fun => ssaProg.lifted[l].fun = c.fun

\* C16, the case that fails: f(x) + 1 was lowered to a Call of the name the
\* resolver gave the declaration of f, the FunBlock lifted from it has another
C16_CallOfDeclarationName ==
  /\ source = NonTailCallProgram
  /\ Lowered
  /\ \E c \in ProgCalls(ssaProg.prog) :
       /\ c.fun \notin CallableNames
       /\ \E l \in 1..Len(ssaProg.lifted) :
            ssaProg.lifted[l].decl = c.fun /\ ssaProg.lifted[l].fun \in CallableNames

(***************************************************************************)
(* C17: variables are defined before they are used.                        *)
(***************************************************************************)
imm_vars(imm) == IF imm.k = "Var" THEN {imm.v} ELSE {}

args_vars(args) == UNION {imm_vars(args[i]) : i \in 1..Len(args)}

\* the variables an operation reads
op_vars(op) ==
  CASE op.k = "Immediate" -> imm_vars(op.imm)
    [] op.k = "Prim1" -> imm_vars(op.imm)
    [] op.k = "Prim2" -> imm_vars(op.imm1) \cup imm_vars(op.imm2)
    [] op.k = "Call" -> args_vars(op.args)

\* the variables a terminator reads
term_vars(t) ==
  CASE t.k = "Return" -> imm_vars(t.imm)
    [] t.k = "Branch" -> args_vars(t.br.args)
    [] t.k = "ConditionalBranch" -> imm_vars(t.cond)

\* the variables a block body reads that are not among defs (the parameters
\* of the enclosing blocks and the destinations before it) when read
RECURSIVE undefined_uses(_, _)
undefined_uses(b, defs) ==
  CASE b.k = "Terminator" -> term_vars(b.t) \ defs
    [] b.k = "Operation" ->
         (op_vars(b.op) \ defs) \cup undefined_uses(b.next, defs \cup {b.dest})
    [] b.k = "SubBlocks" ->
         undefined_uses(b.next, defs)
           \cup UNION {undefined_uses(b.blocks[i].body, defs \cup Range(b.blocks[i].params)) :
                         i \in 1..Len(b.blocks)}

ProgUndefinedUses(prog) ==
  UNION {undefined_uses(prog.blocks[i].body, Range(prog.blocks[i].params)) :
           i \in 1..Len(prog.blocks)}
    \cup UNION {args_vars(prog.funs[i].body.args) \ Range(prog.funs[i].params) :
                  i \in 1..Len(prog.funs)}

\* def main(x): if x: (let y = 1 in y) else: (def f(a): a in f(1))
OtherBranchProgram ==
  Prog(<<>>, "x",
       If(X, Let(<<Binding("y", Num(1))>>, Y),
          FunDefs(<<FunDecl("f", <<"a">>, Var("a"))>>, Call("f", <<Num(1)>>))))

\* C17: in a lowered program every variable read as an immediate is a
\* parameter of an enclosing block or the destination of an operation before
\* it on the same path, so that the SSA interpreter never reports an unbound
\* variable and the emitter never looks up a variable without a slot.
C17_DefinedBeforeUse ==
  /\ Lowered => ProgUndefinedUses(ssaProg.prog) = {}
  /\ SsaFinished => ~(ssaState.status = "err" /\ ssaState.out.t = "UnboundVar")
  /\ Emitted => ~(asmProg.panic /\ asmProg.why = "variable not allocated")

\* C17, the case that fails: the else branch passes y, a variable of the let of
\* the then branch, to the tail block of f; on 0 the SSA interpreter stops at it
C17_UnboundCaptured ==
  /\ source = OtherBranchProgram
  /\ input = 0
  /\ SsaFinished
  /\ ProgUndefinedUses(ssaProg.prog) = {[idx |-> 1, hint |-> "y"]}
  /\ ssaState.status = "err"
  /\ ssaState.out = [t |-> "UnboundVar", v |-> [idx |-> 1, hint |-> "y"]]
  /\ asmProg.panic
  /\ asmProg.why = "variable not allocated"

(***************************************************************************)
(* C18: what a local function captures.                                    *)
(***************************************************************************)
\* the declarations of a bound expression, each with the variables lexically
\* in scope where it is defined; scope is the set in scope at the expression
RECURSIVE decl_sites(_, _)
decl_sites(e, scope) ==
  CASE e.k \in {"Prim", "Call"} ->
         UNION {decl_sites(e.args[i], scope) : i \in 1..Len(e.args)}
    [] e.k = "Let" ->
         UNION {decl_sites(e.bindings[i].expr,
                           scope \cup {e.bindings[j].var : j \in 1..(i - 1)}) :
                  i \in 1..Len(e.bindings)}
           \cup decl_sites(e.body, scope \cup {e.bindings[j].var : j \in 1..Len(e.bindings)})
    [] e.k = "If" ->
         decl_sites(e.cond, scope) \cup decl_sites(e.thn, scope) \cup decl_sites(e.els, scope)
    [] e.k = "FunDefs" ->
         {[decl |-> e.decls[i].name, arity |-> Len(e.decls[i].params), scope |-> scope] :
            i \in 1..Len(e.decls)}
           \cup UNION {decl_sites(e.decls[i].body,
                                  scope \cup {e.decls[i].params[j].p :
                                                j \in 1..Len(e.decls[i].params)}) :
                         i \in 1..Len(e.decls)}
           \cup decl_sites(e.body, scope)
    [] OTHER -> {}

DeclSites == decl_sites(resolved.val.body, {resolved.val.param.p})

\* the captured list of a declaration: what follows the renamed parameters in
\* the parameters of the FunBlock lifted from it
CapturedOf(site) ==
  LET prog == ssaProg.prog
      l == CHOOSE l \in 1..Len(ssaProg.lifted) : ssaProg.lifted[l].decl = site.decl
      j == CHOOSE j \in 1..Len(prog.funs) : prog.funs[j].name = ssaProg.lifted[l].fun
  IN  SubSeq(prog.funs[j].params, site.arity + 1, Len(prog.funs[j].params))

\* def main(x): let a = (def f(p): p in f(1)) in a
OwnBindingProgram ==
  Prog(<<>>, "x",
       Let(<<Binding("a", FunDefs(<<FunDecl("f", <<"p">>, Var("p"))>>,
                                  Call("f", <<Num(1)>>)))>>,
           Var("a")))

\* C18: the captured list of a local function holds exactly the variables
\* lexically in scope where the function is defined: never a variable of a
\* let whose scope ended, of a sibling subexpression, or of the let binding
\* whose right-hand side contains the definition.
C18_CapturedIsScope ==
  Lowered => \A site \in DeclSites : Range(CapturedOf(site)) = site.scope

\* C18, the case that fails: f is defined in the right-hand side of the
\* binding of a, and captures a besides x
C18_CapturesOwnBinding ==
  /\ source = OwnBindingProgram
  /\ Lowered
  /\ \E site \in DeclSites :
       /\ site.scope = {[idx |-> 0, hint |-> "x"]}
       /\ CapturedOf(site) = <<[idx |-> 0, hint |-> "x"], [idx |-> 1, hint |-> "a"]>>

(***************************************************************************)
(* C19: the stores of a branch.                                            *)
(***************************************************************************)
\* the Branch terminators of a block body, each with the emitter Env it is
\* emitted in (the Env evolves as in emit_block_body)
RECURSIVE branch_sites(_, _)
branch_sites(b, env) ==
  CASE b.k = "Terminator" ->
         IF b.t.k = "Branch" THEN {[br |-> b.t.br, env |-> env]} ELSE {}
    [] b.k = "Operation" -> branch_sites(b.next, allocate(env, b.dest))
    [] b.k = "SubBlocks" ->
         LET env1 == register_blocks(env, b.blocks)
         IN  branch_sites(b.next, env1)
               \cup UNION {branch_sites(b.blocks[i].body,
                                        allocate_all(env1, b.blocks[i].params)) :
                             i \in 1..Len(b.blocks)}

ProgBranchSites(prog) ==
  LET env == register_blocks(EmitEnvNew, prog.blocks)
  IN  UNION {branch_sites(prog.blocks[i].body, allocate_all(env, prog.blocks[i].params)) :
               i \in 1..Len(prog.blocks)}

\* what a slot held before the branch
Before(slot) == [k |-> "before", slot |-> slot]

\* the value an immediate has when the memory written so far is mem
imm_value(imm, arena, mem) ==
  IF imm.k = "Const" THEN [k |-> "const", n |-> imm.n]
  ELSE IF arena[imm.v] \in DOMAIN mem THEN mem[arena[imm.v]]
  ELSE Before(arena[imm.v])

\* the slots written by the stores of emit_branch, one argument after another
RECURSIVE branch_stores(_, _, _, _, _)
branch_stores(args, base, arena, i, mem) ==
  IF i > Len(args) THEN mem
  ELSE branch_stores(args, base, arena, i + 1,
                     Put(mem, base + (i - 1), imm_value(args[i], arena, mem)))

\* the i-th slot of the target holds what the i-th argument was before the branch
StoresArguments(site) ==
  LET base == site.env.blocks[site.br.target]
      mem == branch_stores(site.br.args, base, site.env.arena, 1, EmptyMap)
  IN  \A i \in 1..Len(site.br.args) :
        mem[base + (i - 1)] = imm_value(site.br.args[i], site.env.arena, EmptyMap)

\* a branch the emitter emits code for: its target has an offset, its
\* arguments have slots
Emittable(site) ==
  /\ site.br.target \in DOMAIN site.env.blocks
  /\ args_vars(site.br.args) \subseteq DOMAIN site.env.arena

\* C19: the code emitted for a Branch leaves in the i-th parameter slot of
\* the target the value the i-th argument had immediately before the branch,
\* also when the slots of the arguments and of the parameters overlap.
C19_BranchStoresArguments ==
  Emitted =>
    \A site \in ProgBranchSites(ssaProg.prog) : Emittable(site) => StoresArguments(site)

\* C19, the case that fails: def f(a): a + x in f(1) on 5; the tail call stores
\* 1 in the slot of x and then forwards that slot as x, and ret leaves 2 in rax
\* where the AST interpreter gives 6
C19_CapturedClobbered ==
  /\ source = CaptureProgram
  /\ input = 5
  /\ Halted
  /\ \E site \in ProgBranchSites(ssaProg.prog) :
       /\ site.br.target.hint = "f_tail"
       /\ Emittable(site)
       /\ ~StoresArguments(site)
  /\ astOut = [t |-> "ok", v |-> 6, fuel |-> astOut.fuel]
  /\ cpu.out = 2

(***************************************************************************)
(* C20: what the right-hand sides of a let see.                            *)
(***************************************************************************)
\* the references, in right-hand sides of a let, to a name an earlier binding
\* of that let binds: each with its location, the location of that binding
\* and whether the name is bound before the let as well.  visible is the set
\* of names bound at e, sibs maps each name of an earlier sibling that is
\* still the nearest binding to [vloc, outer]
RECURSIVE sibling_refs(_, _, _)
sibling_refs(e, visible, sibs) ==
  CASE e.k = "Var" ->
         IF e.v \in DOMAIN sibs
         THEN {[name |-> e.v, loc |-> e.loc, vloc |-> sibs[e.v].vloc,
                outer |-> sibs[e.v].outer]}
         ELSE {}
    [] e.k \in {"Prim", "Call"} ->
         UNION {sibling_refs(e.args[i], visible, sibs) : i \in 1..Len(e.args)}
    [] e.k = "If" ->
         sibling_refs(e.cond, visible, sibs) \cup sibling_refs(e.thn, visible, sibs)
           \cup sibling_refs(e.els, visible, sibs)
    [] e.k = "Let" ->
         LET names == [i \in 1..Len(e.bindings) |-> e.bindings[i].var]
             earlier(i) == {names[j] : j \in 1..(i - 1)}
             sibs_at(i) ==
               [n \in DOMAIN sibs \cup earlier(i) |->
                  IF n \in earlier(i)
                  THEN [vloc |-> e.bindings[CHOOSE j \in 1..(i - 1) : names[j] = n].vloc,
                        outer |-> n \in visible]
                  ELSE sibs[n]]
             in_body == [n \in DOMAIN sibs \ Range(names) |-> sibs[n]]
         IN  UNION {sibling_refs(e.bindings[i].expr, visible \cup earlier(i), sibs_at(i)) :
                      i \in 1..Len(e.bindings)}
               \cup sibling_refs(e.body, visible \cup Range(names), in_body)
    [] e.k = "FunDefs" ->
         UNION {LET ps == {e.decls[i].params[j].p : j \in 1..Len(e.decls[i].params)}
                IN  sibling_refs(e.decls[i].body, visible \cup ps,
                                 [n \in DOMAIN sibs \ ps |-> sibs[n]]) :
                  i \in 1..Len(e.decls)}
           \cup sibling_refs(e.body, visible, sibs)
    [] OTHER -> {}

SiblingRefs == sibling_refs(source.body, {source.param.p}, EmptyMap)

\* the VarNames the references at loc are resolved to in a bound expression
RECURSIVE var_at(_, _)
var_at(e, loc) ==
  CASE e.k = "Var" -> IF e.loc = loc THEN {e.v} ELSE {}
    [] e.k \in {"Prim", "Call"} -> UNION {var_at(e.args[i], loc) : i \in 1..Len(e.args)}
    [] e.k = "If" -> var_at(e.cond, loc) \cup var_at(e.thn, loc) \cup var_at(e.els, loc)
    [] e.k = "Let" ->
         UNION {var_at(e.bindings[i].expr, loc) : i \in 1..Len(e.bindings)}
           \cup var_at(e.body, loc)
    [] e.k = "FunDefs" ->
         UNION {var_at(e.decls[i].body, loc) : i \in 1..Len(e.decls)} \cup var_at(e.body, loc)
    [] OTHER -> {}

\* the VarNames of the let bindings at vloc in a bound expression
RECURSIVE binding_at(_, _)
binding_at(e, vloc) ==
  CASE e.k \in {"Prim", "Call"} -> UNION {binding_at(e.args[i], vloc) : i \in 1..Len(e.args)}
    [] e.k = "If" ->
         binding_at(e.cond, vloc) \cup binding_at(e.thn, vloc) \cup binding_at(e.els, vloc)
    [] e.k = "Let" ->
         {e.bindings[i].var : i \in {j \in 1..Len(e.bindings) : e.bindings[j].vloc = vloc}}
           \cup UNION {binding_at(e.bindings[i].expr, vloc) : i \in 1..Len(e.bindings)}
           \cup binding_at(e.body, vloc)
    [] e.k = "FunDefs" ->
         UNION {binding_at(e.decls[i].body, vloc) : i \in 1..Len(e.decls)}
           \cup binding_at(e.body, vloc)
    [] OTHER -> {}

\* def main(x): let y = 1, z = y + x in z * y
SiblingProgram ==
  Prog(<<>>, "x",
       Let(<<Binding("y", Num(1)), Binding("z", Prim("Add", <<Y, X>>))>>,
           Prim("Mul", <<Var("z"), Y>>)))

\* def main(x): let z = y, y = 1 in z
LaterSiblingProgram ==
  Prog(<<>>, "x", Let(<<Binding("z", Y), Binding("y", Num(1))>>, Var("z")))

RECURSIVE body_branches(_)
body_branches(b) ==
  CASE b.k = "Terminator" -> IF b.t.k = "Branch" THEN {b.t.br} ELSE {}
    [] b.k = "Operation" -> body_branches(b.next)
    [] b.k = "SubBlocks" ->
         body_branches(b.next)
           \cup UNION {body_branches(b.blocks[i].body) : i \in 1..Len(b.blocks)}

\* the Branch terminators of the basic blocks of a program
ProgBranches(prog) == UNION {body_branches(prog.blocks[i].body) : i \in 1..Len(prog.blocks)}

\* the Call operations of a program with their arguments
RECURSIVE body_call_ops(_)
body_call_ops(b) ==
  CASE b.k = "Terminator" -> {}
    [] b.k = "Operation" ->
         (IF b.op.k = "Call" THEN {b.op} ELSE {}) \cup body_call_ops(b.next)
    [] b.k = "SubBlocks" ->
         body_call_ops(b.next)
           \cup UNION {body_call_ops(b.blocks[i].body) : i \in 1..Len(b.blocks)}

ProgCallOps(prog) == UNION {body_call_ops(prog.blocks[i].body) : i \in 1..Len(prog.blocks)}

\* what follows the first n elements
After(seq, n) == SubSeq(seq, n + 1, Len(seq))

\* the position of a declaration in the order the declarations were lifted:
\* its tail block is the basic block at that position, its FunBlock follows
\* the FunBlock of the entry at that position
LiftedAt(decl) == CHOOSE l \in 1..Len(ssaProg.lifted) : ssaProg.lifted[l].decl = decl

\* the tail block and the FunBlock of a declaration, and every call of it,
\* carry the same captured variables after the parameters or arguments
SameCaptured(site) ==
  LET prog == ssaProg.prog
      l == LiftedAt(site.decl)
      tail_block == prog.blocks[l]
      fun_block == prog.funs[l + 1]
      captured == After(tail_block.params, site.arity)
      passed == [i \in 1..Len(captured) |-> [k |-> "Var", v |-> captured[i]]]
  IN  /\ fun_block.name = ssaProg.lifted[l].fun
      /\ fun_block.body.target = tail_block.label
      /\ Len(tail_block.params) >= site.arity
      /\ After(fun_block.params, site.arity) = captured
      /\ After(fun_block.body.args, site.arity) = passed
      /\ \A br \in ProgBranches(prog) :
           br.target = tail_block.label => After(br.args, site.arity) = passed
      /\ \A op \in ProgCallOps(prog) :
           op.fun = site.decl => After(op.args, site.arity) = passed

\* def main(x): def f(a): if a <= 0: x else: f(a - 1) + 1 in f(x)
RecCaptureProgram ==
  Prog(<<>>, "x",
       FunDefs(<<FunDecl("f", <<"a">>,
                         If(Prim("Le", <<Var("a"), Num(0)>>), X,
                            Prim("Add", <<Call("f", <<Prim("Sub", <<Var("a"), Num(1)>>)>>),
                                          Num(1)>>)))>>,
               Call("f", <<X>>)))

\* C21: for every local function declaration the same captured VarNames, in
\* the same order, follow the parameters of its tail block, the parameters
\* and the branch arguments of its FunBlock, and the arguments of every call
\* of it, tail branch or Call operation.
C21_SameCapturedEverywhere ==
  Lowered => \A site \in DeclSites : SameCaptured(site)

\* C21: f captures x and is called in tail position from main and in
\* non-tail position from itself, with x after the argument both times
C21_CapturedAtBothCalls ==
  /\ source = RecCaptureProgram
  /\ Lowered
  /\ \E site \in DeclSites :
       LET tail_block == ssaProg.prog.blocks[LiftedAt(site.decl)]
       IN  /\ After(tail_block.params, 1) = <<resolved.val.param.p>>
           /\ \E br \in ProgBranches(ssaProg.prog) :
                br.target = tail_block.label /\ Len(br.args) = 2
           /\ \E op \in ProgCallOps(ssaProg.prog) :
                op.fun = site.decl /\ Len(op.args) = 2

(***************************************************************************)
(* C22: the slots of block parameters.                                     *)
(***************************************************************************)
\* the basic blocks of a block body, each with the emitter Env its label is
\* emitted in: the Env of the cluster after its labels were registered
RECURSIVE block_sites(_, _)
block_sites(b, env) ==
  CASE b.k = "Terminator" -> {}
    [] b.k = "Operation" -> block_sites(b.next, allocate(env, b.dest))
    [] b.k = "SubBlocks" ->
         LET env1 == register_blocks(env, b.blocks)
         IN  {[block |-> b.blocks[i], env |-> env1] : i \in 1..Len(b.blocks)}
               \cup block_sites(b.next, env1)
               \cup UNION {block_sites(b.blocks[i].body,
                                       allocate_all(env1, b.blocks[i].params)) :
                             i \in 1..Len(b.blocks)}

ProgBlockSites(prog) ==
  LET env == register_blocks(EmitEnvNew, prog.blocks)
  IN  {[block |-> prog.blocks[i], env |-> env] : i \in 1..Len(prog.blocks)}
        \cup UNION {block_sites(prog.blocks[i].body, allocate_all(env, prog.blocks[i].params)) :
                      i \in 1..Len(prog.blocks)}

\* the base recorded for the label of a block when its cluster was registered
RecordedBase(bs) == bs.env.blocks[bs.block.label]

\* the slot allocate gives the i-th parameter of the block
ParamSlot(bs, i) ==
  allocate_all(bs.env, SubSeq(bs.block.params, 1, i)).arena[bs.block.params[i]]

\* def main(x): add1(if x: 1 else: 2)
JoinProgram == Prog(<<>>, "x", Prim("Add1", <<If(X, Num(1), Num(2))>>))

RECURSIVE body_clusters(_)
body_clusters(b) ==
  CASE b.k = "Terminator" -> {}
    [] b.k = "Operation" -> body_clusters(b.next)
    [] b.k = "SubBlocks" ->
         {b} \cup body_clusters(b.next)
             \cup UNION {body_clusters(b.blocks[i].body) : i \in 1..Len(b.blocks)}

\* the terminators of a block body
RECURSIVE body_terminators(_)
body_terminators(b) ==
  CASE b.k = "Terminator" -> {b.t}
    [] b.k = "Operation" -> body_terminators(b.next)
    [] b.k = "SubBlocks" ->
         body_terminators(b.next)
           \cup UNION {body_terminators(b.blocks[i].body) : i \in 1..Len(b.blocks)}

RECURSIVE SumSeq(_)
SumSeq(ns) == IF ns = <<>> THEN 0 ELSE Head(ns) + SumSeq(Tail(ns))

\* how many times the block body m occurs in b
RECURSIVE body_count(_, _)
body_count(b, m) ==
  (IF b = m THEN 1 ELSE 0)
    + (CASE b.k = "Terminator" -> 0
         [] b.k = "Operation" -> body_count(b.next, m)
         [] b.k = "SubBlocks" ->
              body_count(b.next, m)
                + SumSeq([i \in 1..Len(b.blocks) |-> body_count(b.blocks[i].body, m)]))

\* the if expressions of a bound expression, function bodies included
RECURSIVE if_exprs(_)
if_exprs(e) ==
  CASE e.k \in {"Prim", "Call"} -> UNION {if_exprs(e.args[i]) : i \in 1..Len(e.args)}
    [] e.k = "Let" ->
         UNION {if_exprs(e.bindings[i].expr) : i \in 1..Len(e.bindings)} \cup if_exprs(e.body)
    [] e.k = "If" -> {e} \cup if_exprs(e.cond) \cup if_exprs(e.thn) \cup if_exprs(e.els)
    [] e.k = "FunDefs" ->
         UNION {if_exprs(e.decls[i].body) : i \in 1..Len(e.decls)} \cup if_exprs(e.body)
    [] OTHER -> {}

\* the cluster of an if lowered with continuation Return: two arms without
\* parameters, selected by the conditional branch, and no join block
TailCluster(c) ==
  /\ Len(c.blocks) = 2
  /\ c.blocks[1].params = <<>> /\ c.blocks[2].params = <<>>
  /\ c.blocks[1].label.hint = "thn" /\ c.blocks[2].label.hint = "els"
  /\ \E t \in body_terminators(c.next) :
       /\ t.k = "ConditionalBranch"
       /\ t.thn = c.blocks[1].label /\ t.els = c.blocks[2].label

\* the cluster of an if lowered with continuation Block(d, body): the arms and
\* a join block of one parameter; every Branch to the join block is in an arm
\* and carries one argument, no arm returns
JoinCluster(c) ==
  /\ Len(c.blocks) = 3
  /\ c.blocks[1].params = <<>> /\ c.blocks[2].params = <<>>
  /\ c.blocks[1].label.hint = "thn" /\ c.blocks[2].label.hint = "els"
  /\ c.blocks[3].label.hint = "jn"
  /\ Len(c.blocks[3].params) = 1
  /\ \E t \in body_terminators(c.next) :
       /\ t.k = "ConditionalBranch"
       /\ t.thn = c.blocks[1].label /\ t.els = c.blocks[2].label
  /\ \A i \in 1..2 :
       /\ \E t \in body_terminators(c.blocks[i].body) :
            t.k = "Branch" /\ t.br.target = c.blocks[3].label
       /\ \A t \in body_terminators(c.blocks[i].body) :
            /\ t.k # "Return"
            /\ (t.k = "Branch" /\ t.br.target = c.blocks[3].label) => Len(t.br.args) = 1
  /\ \A t \in body_terminators(c.next) \cup body_terminators(c.blocks[3].body) :
       t.k = "Branch" => t.br.target # c.blocks[3].label

\* a continuation Block(d, body) whose body occurs nowhere else
JoinDest == [idx |-> 99, hint |-> "d"]

JoinBody == [k |-> "Terminator", t |-> [k |-> "Return", imm |-> [k |-> "Const", n |-> 77]]]

\* an if without calls and definitions lowered on its own, with continuation
\* Block(JoinDest, JoinBody) or Return
lower_if(e, k) ==
  lower_expr_kont(e, k, LowerEnvNew,
                  [g |-> gens, funs |-> <<>>, blocks |-> <<>>, panic |-> FALSE,
                   lifted |-> <<>>]).body

SimpleIfs == {e \in if_exprs(resolved.val.body) : Simple(e)}

ProgClusters(prog) == UNION {body_clusters(prog.blocks[i].body) : i \in 1..Len(prog.blocks)}

\* def main(x): (if x > 0: 1 else: 2) * (if x < 0: 3 else: x)
TwoIfsProgram ==
  Prog(<<>>, "x",
       Prim("Mul", <<If(Prim("Gt", <<X, Num(0)>>), Num(1), Num(2)),
                     If(Prim("Lt", <<X, Num(0)>>), Num(3), X)>>))

\* C23: an if lowered with continuation Block(d, body) gives one SubBlocks
\* cluster [thn, els, join], join having the parameters [d] and the body
\* body, each arm ending with a Branch to join of exactly one argument, and
\* body occurs once in the output; with continuation Return the cluster has
\* the two arms without parameters and no join block.  In a lowered program
\* every cluster is of one of the two kinds and there is one per if.
C23_IfCluster ==
  /\ Resolved =>
       \A e \in SimpleIfs :
         LET j == lower_if(e, [k |-> "Block", dest |-> JoinDest, next |-> JoinBody])
             r == lower_if(e, [k |-> "Return"])
         IN  /\ j.k = "SubBlocks"
             /\ JoinCluster(j)
             /\ j.blocks[3].params = <<JoinDest>>
             /\ j.blocks[3].body = JoinBody
             /\ body_count(j, JoinBody) = 1
             /\ r.k = "SubBlocks"
             /\ TailCluster(r)
             /\ \A c \in body_clusters(j) \cup body_clusters(r) : JoinCluster(c) \/ TailCluster(c)
  /\ Lowered =>
       /\ \A c \in ProgClusters(ssaProg.prog) : JoinCluster(c) \/ TailCluster(c)
       /\ Cardinality(ProgClusters(ssaProg.prog)) = Cardinality(if_exprs(resolved.val.body))

\* C23: both ifs of (if x > 0: 1 else: 2) * (if x < 0: 3 else: x) became
\* clusters with a join block, the join block of the first holding the second
C23_TwoJoinClusters ==
  /\ source = TwoIfsProgram
  /\ Lowered
  /\ Cardinality(ProgClusters(ssaProg.prog)) = 2
  /\ \A c \in ProgClusters(ssaProg.prog) : JoinCluster(c)
  /\ \E c \in ProgClusters(ssaProg.prog) : body_clusters(c.blocks[3].body) # {}
  /\ Cardinality(SimpleIfs) = 2

(***************************************************************************)
(* C24: the logical primitives.                                            *)
(***************************************************************************)
\* the value of an immediate in a frame (a map from VarName to integer)
frame_value(imm, frame) == IF imm.k = "Const" THEN imm.n ELSE frame[imm.v]

\* the value a chain of Prim1 and Prim2 operations returns from a frame, each
\* operation computed as Interp::run_operation computes it
RECURSIVE ops_value(_, _)
ops_value(b, frame) ==
  IF b.k = "Terminator" THEN frame_value(b.t.imm, frame)
  ELSE LET v == CASE b.op.k = "Immediate" -> frame_value(b.op.imm, frame)
                  [] b.op.k = "Prim1" -> ssa_prim1(b.op.op, frame_value(b.op.imm, frame))
                  [] b.op.k = "Prim2" ->
                       ssa_prim2(b.op.op, frame_value(b.op.imm1, frame),
                                 frame_value(b.op.imm2, frame))
       IN  ops_value(b.next, Put(frame, b.dest, v))

\* the value of the operations a logical primitive is lowered to, on a and b
\* (b is not read by Not)
LogicalOps(prim, a, b) ==
  LET va == [idx |-> 0, hint |-> "a"]
      vb == [idx |-> 1, hint |-> "b"]
      dest == [idx |-> 2, hint |-> "res"]
      ret == [k |-> "Terminator",
              t |-> [k |-> "Return", imm |-> [k |-> "Var", v |-> dest]]]
      block == prim_block(prim, <<[k |-> "Var", v |-> va], [k |-> "Var", v |-> vb]>>,
                          dest, ret, [vars |-> 3, funs |-> 0, blocks |-> 0])
  IN  ops_value(block.body, Put(Put(EmptyMap, va, a), vb, b))

\* what the AST interpreter computes for a logical primitive
LogicalValue(prim, a, b) ==
  CASE prim = "Not" -> IF a = 0 THEN 1 ELSE 0
    [] prim = "And" -> IF a # 0 /\ b # 0 THEN 1 ELSE 0
    [] prim = "Or" -> IF a # 0 \/ b # 0 THEN 1 ELSE 0

Logical == {"Not", "And", "Or"}

\* def main(x): x || 0
OrZeroProgram == Prog(<<>>, "x", Prim("Or", <<X, Num(0)>>))

\* C24: on all operand values the operations Not, And and Or are lowered to
\* compute under the SSA interpreter what the AST interpreter computes (Not n
\* is 1 when n = 0 and 0 otherwise, And and Or take every non-zero operand as
\* true), and the result is 0 or 1.  Checked on the lowered operations for the
\* input and every second operand, and on the runs of the programs that
\* apply a logical primitive to the input.
C24_LogicalPrimitives ==
  /\ phase = "ast" =>
       \A prim \in Logical : \A b \in Inputs :
         /\ LogicalOps(prim, input, b) = LogicalValue(prim, input, b)
         /\ LogicalOps(prim, b, input) = LogicalValue(prim, b, input)
         /\ LogicalValue(prim, input, b) = prim_f(prim, <<input, b>>)
         /\ LogicalOps(prim, input, b) \in {0, 1}
  /\ (SsaFinished /\ source.externs = <<>> /\ source.body.k = "Prim"
        /\ source.body.prim \in Logical /\ Simple(source.body)) =>
       /\ astOut.t = "ok"
       /\ ssaState.status = "ok"
       /\ ssaState.out = astOut.v
       /\ ssaState.out \in {0, 1}

\* C24: 42 || 0 gave 1 in both interpreters
C24_OrOfFortyTwo ==
  /\ source = OrZeroProgram
  /\ input = 42
  /\ SsaFinished
  /\ astOut.t = "ok"
  /\ astOut.v = 1
  /\ ssaState.out = 1
  /\ LogicalOps("Or", 42, 0) = 1

(***************************************************************************)
(* C25: the comparisons in the emitted code.                               *)
(***************************************************************************)
Comparisons == {"Lt", "Le", "Gt", "Ge", "Eq", "Neq"}

\* the machine after n instructions, none of which reads a slot never written
RECURSIVE cpu_steps(_, _, _)
cpu_steps(cpu_, instrs, n) ==
  IF n = 0 THEN cpu_ ELSE cpu_steps(cpu_step(cpu_, instrs, 0), instrs, n - 1)

\* what rax and r10 may hold before the comparison
Leftover == Garbage \cup {-1, MaxInt}

\* the slot of the destination after the instructions emitted for
\* dest = a op b, a being in slot 1 (or b, when flipped) and the other
\* operand a constant, run with rax and r10 holding junk
ComparedSlot(op, a, b, flipped, junk) ==
  LET x == [idx |-> 0, hint |-> "x"]
      dest == [idx |-> 1, hint |-> "res"]
      env == allocate(EmitEnvNew, x)
      var == [k |-> "Var", v |-> x]
      operation == IF flipped
                   THEN [k |-> "Prim2", op |-> op, imm1 |-> [k |-> "Const", n |-> a],
                         imm2 |-> var]
                   ELSE [k |-> "Prim2", op |-> op, imm1 |-> var,
                         imm2 |-> [k |-> "Const", n |-> b]]
      instrs == emit_operation(dest, operation, env).instrs
      start == [status |-> "run", pc |-> 1,
                regs |-> [Rax |-> junk, R10 |-> junk, Rdi |-> junk],
                flags |-> [a |-> junk, b |-> junk],
                mem |-> Put(EmptyMap, -8 * 1, IF flipped THEN b ELSE a), out |-> 0]
  IN  cpu_steps(start, instrs, Len(instrs)).mem[-8 * 2]

\* the signed comparison
Compared(op, a, b) ==
  CASE op = "Lt" -> IF a < b THEN 1 ELSE 0
    [] op = "Le" -> IF a <= b THEN 1 ELSE 0
    [] op = "Gt" -> IF a > b THEN 1 ELSE 0
    [] op = "Ge" -> IF a >= b THEN 1 ELSE 0
    [] op = "Eq" -> IF a = b THEN 1 ELSE 0
    [] op = "Neq" -> IF a # b THEN 1 ELSE 0

\* def main(x): x < 1
LessProgram == Prog(<<>>, "x", Prim("Lt", <<X, Num(1)>>))

\* C25: for every comparison and all operand values a, b the instructions
\* emitted for it (a into rax, b into r10, cmp, mov rax 0, setcc al, store)
\* leave the whole destination slot equal to 1 when the signed comparison
\* holds and to 0 otherwise, whatever rax held before.  Checked on the
\* emitted sequence for the input against every value of Inputs, in both
\* orders, and on the runs of the programs that compare the input.
C25_ComparisonSlot ==
  /\ phase = "ast" =>
       \A op \in Comparisons : \A b \in Inputs : \A junk \in Leftover :
         /\ ComparedSlot(op, input, b, FALSE, junk) = Compared(op, input, b)
         /\ ComparedSlot(op, b, input, TRUE, junk) = Compared(op, b, input)
  /\ (Halted /\ source.body.k = "Prim" /\ source.body.prim \in Comparisons
        /\ Simple(source.body)) =>
       /\ astOut.t = "ok"
       /\ cpu.out = astOut.v
       /\ cpu.out \in {0, 1}

\* C25: x < 1 on the least integer ran to ret with 1, and on the emitted
\* sequence the slot is 1 with all bits of rax set beforehand
C25_LeastIsLess ==
  /\ source = LessProgram
  /\ input = MinInt
  /\ Halted
  /\ cpu.out = 1
  /\ ComparedSlot("Lt", MinInt, 1, FALSE, -1) = 1
  /\ ComparedSlot("Lt", 1, MinInt, TRUE, -1) = 0

(***************************************************************************)
(* C26: lower_prog on every resolved program.                              *)
(***************************************************************************)
\* extern f(a)   def main(x): def f(b, c): b in f(x, 1)
ExternShadowedProgram ==
  Prog(<<ExtDecl("f", <<"a">>)>>, "x",
       FunDefs(<<FunDecl("f", <<"b", "c">>, Var("b"))>>, Call("f", <<X, Num(1)>>)))

\* the functions called in a bound expression
RECURSIVE called_funs(_)
called_funs(e) ==
  CASE e.k = "Prim" -> UNION {called_funs(e.args[i]) : i \in 1..Len(e.args)}
    [] e.k = "Call" -> {e.fun} \cup UNION {called_funs(e.args[i]) : i \in 1..Len(e.args)}
    [] e.k = "Let" ->
         UNION {called_funs(e.bindings[i].expr) : i \in 1..Len(e.bindings)}
           \cup called_funs(e.body)
    [] e.k = "If" -> called_funs(e.cond) \cup called_funs(e.thn) \cup called_funs(e.els)
    [] e.k = "FunDefs" ->
         UNION {called_funs(e.decls[i].body) : i \in 1..Len(e.decls)} \cup called_funs(e.body)
    [] OTHER -> {}

\* the labels of the top-level blocks of the lowered program
TopLabels == {ssaProg.prog.blocks[i].label : i \in 1..Len(ssaProg.prog.blocks)}

\* C26: lower_prog completes without panicking on every bound program of a
\* successful resolution: every called FunName is found in the lowering
\* environment (an extern, the entry or a local declaration), and every local
\* declaration has one recorded tail block, of its parameters followed by its
\* captured variables, and one FunBlock branching to it.
C26_LoweringCompletes ==
  Lowered =>
    /\ ~ssaProg.panic
    /\ \A f \in called_funs(resolved.val.body) :
         \/ f = resolved.val.name
         \/ \E i \in 1..Len(resolved.val.externs) : resolved.val.externs[i].name = f
         \/ \E site \in DeclSites : site.decl = f
    /\ \A site \in DeclSites :
         /\ Cardinality({l \in 1..Len(ssaProg.lifted) :
                           ssaProg.lifted[l].decl = site.decl}) = 1
         /\ LET l == LiftedAt(site.decl)
                block == ssaProg.prog.blocks[l]
                fun == ssaProg.prog.funs[l + 1]
            IN  /\ fun.name = ssaProg.lifted[l].fun
                /\ fun.body.target = block.label
                /\ Len(block.params) = Len(fun.params)
                /\ Len(block.params) >= site.arity
                /\ Cardinality({i \in 1..Len(ssaProg.prog.blocks) :
                                  ssaProg.prog.blocks[i].label = block.label}) = 1

\* C26: the program whose local f shadows the extern f is lowered: the call
\* finds the local f, which has its tail block and its FunBlock
C26_ShadowedExternLowered ==
  /\ source = ExternShadowedProgram
  /\ Lowered
  /\ ~ssaProg.panic
  /\ Len(ssaProg.lifted) = 1
  /\ Len(ssaProg.prog.externs) = 1
  /\ Len(ssaProg.prog.blocks) = 2

(***************************************************************************)
(* C27: the shape of the emitted instructions.                             *)
(***************************************************************************)
\* the instructions with two operands
TwoOperand == {"Mov", "Add", "Sub", "IMul", "And", "Or", "Xor", "Cmp"}

\* the kinds of instruction the emitter produces
EmittedKinds ==
  TwoOperand \cup {"Section", "Global", "Label", "Ret", "Jmp", "JCC", "SetCC"}

\* the memory operands of an instruction
mem_operands(instr) ==
  IF instr.k \notin TwoOperand THEN {}
  ELSE IF instr.args.k = "ToMem" THEN {instr.args.m}
  ELSE IF instr.args.arg.k = "Mem" THEN {instr.args.arg.m}
  ELSE {}

\* the registers an instruction writes
dest_regs(instr) ==
  IF instr.k = "SetCC" THEN {instr.reg}
  ELSE IF instr.k \in TwoOperand \ {"Cmp"} /\ instr.args.k = "ToReg" THEN {instr.args.reg}
  ELSE {}

\* C27: the instruction list of emit_prog holds no push and no pop and no
\* instruction whose destination is rsp, and every memory operand in it is
\* [rsp - 8 * slot] with slot >= 1.
C27_StackUntouched ==
  (Emitted /\ ~asmProg.panic) =>
    \A i \in 1..Len(asmProg.instrs) :
      LET instr == asmProg.instrs[i]
      IN  /\ instr.k \in EmittedKinds
          /\ "Rsp" \notin dest_regs(instr)
          /\ \A m \in mem_operands(instr) :
               /\ m.reg = "Rsp"
               /\ \E slot \in 1..Len(asmProg.instrs) : m.offset = -8 * slot

\* C27: the loop program is emitted, with loads from and stores to the
\* slots below rsp, the first of them slot 1
C27_LoopEmitted ==
  /\ source = LoopProgram
  /\ Emitted
  /\ ~asmProg.panic
  /\ \E i \in 1..Len(asmProg.instrs) :
       asmProg.instrs[i] = Mov(ToMem(MemRef("Rsp", -8), Reg("Rdi")))
  /\ \E i \in 1..Len(asmProg.instrs) :
       /\ asmProg.instrs[i].k = "Mov"
       /\ asmProg.instrs[i].args.k = "ToReg"
       /\ asmProg.instrs[i].args.arg.k = "Mem"

(***************************************************************************)
(* C28: the emitter's slot map.                                            *)
(***************************************************************************)
\* the environments allocate_all goes through
AllocatingEnvs(env, params) == {allocate_all(env, SubSeq(params, 1, j)) : j \in 0..Len(params)}

\* the emitter Env at every point of the emission of a block body
RECURSIVE emission_envs(_, _)
emission_envs(b, env) ==
  {env} \cup
  CASE b.k = "Terminator" -> {}
    [] b.k = "Operation" -> emission_envs(b.next, allocate(env, b.dest))
    [] b.k = "SubBlocks" ->
         LET env1 == register_blocks(env, b.blocks)
         IN  emission_envs(b.next, env1)
               \cup UNION {AllocatingEnvs(env1, b.blocks[i].params)
                             \cup emission_envs(b.blocks[i].body,
                                                allocate_all(env1, b.blocks[i].params)) :
                             i \in 1..Len(b.blocks)}

ProgEmissionEnvs(prog) ==
  LET env == register_blocks(EmitEnvNew, prog.blocks)
  IN  {EmitEnvNew, env}
        \cup UNION {AllocatingEnvs(env, prog.blocks[i].params)
                      \cup emission_envs(prog.blocks[i].body,
                                         allocate_all(env, prog.blocks[i].params)) :
                      i \in 1..Len(prog.blocks)}

\* the Env the caller of emit_block_body holds when it returns: the clusters
\* are emitted in clones, the operations in the Env itself
RECURSIVE env_after(_, _)
env_after(b, env) ==
  CASE b.k = "Terminator" -> env
    [] b.k = "Operation" -> env_after(b.next, allocate(env, b.dest))
    [] b.k = "SubBlocks" -> register_blocks(env, b.blocks)

\* the SubBlocks clusters of a block body, each with the Env it is emitted in
RECURSIVE cluster_sites(_, _)
cluster_sites(b, env) ==
  CASE b.k = "Terminator" -> {}
    [] b.k = "Operation" -> cluster_sites(b.next, allocate(env, b.dest))
    [] b.k = "SubBlocks" ->
         LET env1 == register_blocks(env, b.blocks)
         IN  {[cluster |-> b, env |-> env]}
               \cup cluster_sites(b.next, env1)
               \cup UNION {cluster_sites(b.blocks[i].body,
                                         allocate_all(env1, b.blocks[i].params)) :
                             i \in 1..Len(b.blocks)}

ProgClusterSites(prog) ==
  LET env == register_blocks(EmitEnvNew, prog.blocks)
  IN  UNION {cluster_sites(prog.blocks[i].body, allocate_all(env, prog.blocks[i].params)) :
               i \in 1..Len(prog.blocks)}

\* no two variables share a slot
Injective(env) ==
  \A x, y \in DOMAIN env.arena : x # y => env.arena[x] # env.arena[y]

\* every slot was handed out by the counter
BoundedByNext(env) == \A x \in DOMAIN env.arena : 1 <= env.arena[x] /\ env.arena[x] < env.next

\* C28: at every point of emission the slot map is injective and bounded by
\* the counter (two distinct visible variables never share a slot, every
\* assigned slot s has 1 <= s < next), and the emission of a SubBlocks
\* cluster leaves the counter and the variable slots of the enclosing
\* environment as they were.
C28_SlotMapInjective ==
  Emitted =>
    /\ \A env \in ProgEmissionEnvs(ssaProg.prog) : Injective(env) /\ BoundedByNext(env)
    /\ \A site \in ProgClusterSites(ssaProg.prog) :
         LET after == env_after(site.cluster, site.env)
         IN  /\ after.next = site.env.next
             /\ after.arena = site.env.arena
             /\ \A i \in 1..Len(site.cluster.blocks) :
                  after.blocks[site.cluster.blocks[i].label] = site.env.next

\* C28: add1(if x: 1 else: 2) is emitted: it has a cluster, and where the
\* join block's body is emitted the input and the join parameter have slots
C28_ClusterEmitted ==
  /\ source = JoinProgram
  /\ Emitted
  /\ ~asmProg.panic
  /\ ProgClusterSites(ssaProg.prog) # {}
  /\ \E env \in ProgEmissionEnvs(ssaProg.prog) :
       /\ Cardinality(DOMAIN env.arena) >= 2
       /\ env.next >= 3

(***************************************************************************)
(* C29: the FunNames of the declarations of a resolved program.            *)
(***************************************************************************)
\* the function declarations of a bound program: the entry, each extern and
\* each local declaration, with the FunName it carries
Declarations ==
  {[what |-> "entry", at |-> 0, name |-> resolved.val.name]}
    \cup {[what |-> "extern", at |-> i, name |-> resolved.val.externs[i].name] :
            i \in 1..Len(resolved.val.externs)}
    \cup {[what |-> "local", at |-> site, name |-> site.decl] : site \in DeclSites}

\* C29: in every successfully resolved program distinct function
\* declarations (the entry, each extern, each local declaration) carry
\* pairwise distinct FunNames, also when an extern is named entry in the
\* source.
C29_DistinctFunNames ==
  (Resolved /\ resolved.ok) =>
    \A d, e \in Declarations : d # e => d.name # e.name

\* C29, the case that fails: the program with the extern named entry
\* resolves, and the extern carries the FunName of the program's entry
C29_ExternIsEntry ==
  /\ source = ExternEntryProgram
  /\ Resolved
  /\ resolved.ok
  /\ Len(resolved.val.externs) = 1
  /\ resolved.val.externs[1].name = resolved.val.name
  /\ resolved.val.name = Unmangled("entry")

(***************************************************************************)
(* C30: the parameter lists of the lowered program.                        *)
(***************************************************************************)
\* def main(x): def f(a): (def g(b): b + a in g(x)) in f(1)
NestedProgram ==
  Prog(<<>>, "x",
       FunDefs(<<FunDecl("f", <<"a">>,
                         FunDefs(<<FunDecl("g", <<"b">>, Prim("Add", <<Var("b"), Var("a")>>))>>,
                                 Call("g", <<X>>)))>>,
               Call("f", <<Num(1)>>)))

\* the parameter lists of the program: of every basic block, top-level or in
\* a cluster, and of every FunBlock
ParameterLists(prog) ==
  {bs.block.params : bs \in ProgBlockSites(prog)}
    \cup {prog.funs[i].params : i \in 1..Len(prog.funs)}

\* C30: in every SSA program produced by lower_prog no basic block and no
\* FunBlock has the same VarName twice in its parameter list, also for a
\* function defined inside the body of another local function.
C30_ParametersDistinct ==
  Lowered => \A params \in ParameterLists(ssaProg.prog) : NoRepeat(params)

\* C30, the case that fails: g is defined in the body of f, whose lowering
\* environment holds the input twice (as what f captured and as what was
\* visible before), so the tail block of g has the input twice
C30_NestedCapturesTwice ==
  /\ source = NestedProgram
  /\ Lowered
  /\ ~ssaProg.panic
  /\ \E i \in 1..Len(ssaProg.prog.blocks) :
       LET params == ssaProg.prog.blocks[i].params
       IN  /\ Len(params) = 4
           /\ params[2] = resolved.val.param.p
           /\ params[4] = resolved.val.param.p
           /\ params[1] # params[3]

=============================================================================
